---- MODULE Spec2Model ----
(***************************************************************************)
(* The study session engine of jec-tango (StudySession component): the     *)
(* flip-card scheduler (requeue-on-miss variant, and the earlier           *)
(* scan-forward variant under the names scan...), the memory-matching      *)
(* machine, the listening quiz and the session statistics; and its audio   *)
(* service (services/audio.ts): playTextToSpeech with its cache and its    *)
(* fallback voice, decodeBase64 and decodePCM; the leaderboard of the      *)
(* memory game; and the ways App (App.tsx) closes a session and saves it.  *)
(*                                                                         *)
(* One action models one event handler or one timer callback.  React       *)
(* state set by a handler is visible to the next handler (every handler    *)
(* runs on the render that follows the previous one), and an effect        *)
(* (useEffect) runs with the commit of the state change that triggers it.  *)
(* A handler is enabled while the screen that carries its control is       *)
(* shown; its own early returns are the IF of its action, recorded in      *)
(* lastCall as "noop", so that a rejected call is a step.                  *)
(* Indices are 0-based as in the source; At(s, i) reads s[i] of the code.  *)
(***************************************************************************)
EXTENDS Integers, Sequences, FiniteSets, TLC

(* ---------------------------------------------------------------- bounds *)
\* largest deck of a session of Spec (flip-card and listening)
MaxCards == 3
\* largest deck of a session of MemorySpec
MaxMemoryCards == 5
\* largest deck of a session of FairSpec
MaxFairCards == 2
\* accepted answers (historyCount) after which the learner stops grading
MaxHistory == 12
\* accepted tile clicks after which the learner stops clicking
MaxClicks == 12
\* largest deck of a session of ListeningSpec
MaxListeningCards == 5
\* largest deck of a session of ListeningFairSpec
MaxFairListeningCards == 3
\* clock readings (performance.now() - start) the memory clock is followed for
MaxElapsed == 2
\* tile orders tried per deal: rotations 0..MaxRotation of [fronts..., backs...]
MaxRotation == 1

\* playTextToSpeech calls followed in a run of AudioSpec
MaxCalls == 3
\* longest byte buffer given to decodePCM in DecodeSpec
MaxBytes == 3

\* most StudentProgress records loaded in a run of LeaderboardSpec
MaxRecords == 3
\* largest clock reading the leaderboard is rendered at in LeaderboardSpec
MaxBoardTime == 2

\* largest deck of a session of AppSpec
MaxAppCards == 2
\* activations of the stats screen's close control followed in a session
MaxSaves == 2

\* largest deck of a session of SpokenSpec
MaxSpokenCards == 2

\* largest deck of a session of RequeueSpec
MaxRequeueCards == 5
\* accepted answers after which the learner stops grading in RequeueSpec
MaxRequeueGrades == 6

\* largest deck of a session of ScheduleFairSpec
MaxScheduleCards == 2
\* answers counted in ScheduleFairSpec, whose learner never stops grading: larger
\* values of historyCount and streak are not told apart
MaxCounted == 2

\* largest deck of a session of MemoryFairSpec
MaxFairMemoryCards == 2

\* largest deck of a session of DealSpec
MaxDealCards == 7
\* accepted tile clicks followed after the deal in DealSpec
MaxDealClicks == 1

\* largest deck of a session of ProgressSpec
MaxProgressCards == 41

\* largest deck of a session of ScanSpec
MaxScanCards == 2
\* accepted answers after which the learner stops grading in ScanSpec
MaxScanGrades == 5

(* ----------------------------------------------------- program constants *)
MAX_MASTERY == 5
REQUEUE_OFFSET == 3
TRANSITION_DELAY_MS == 300
MEMORY_PAIR_COUNT == 6
MEMORY_PERFECT_CLICKS == 12
MATCH_DELAY_MS == 600
MISMATCH_DELAY_MS == 800
DISTRACTOR_COUNT == 3
ADVANCE_DELAY_MS == 1200
PCM_SCALE == 32768

(* ------------------------------------------------------------- variables *)
VARIABLES
  mode,               \* SessionMode | null
  cards,              \* working set: sequence of Flashcard
  currentIndex,       \* 0-based cursor
  isFlipped,          \* flip-card face
  showStats,          \* stats screen entered
  historyCount,       \* accepted answers
  streak,             \* consecutive non-incorrect answers
  animationClass,     \* '' or the fly-out animation of the grade in transition
  timeouts,           \* pending setTimeout callbacks, in scheduling order
  memoryCards,        \* tiles: id, type, isFlipped, isMatched
  selectedIndices,    \* 0-based indices of the tiles selected
  timer,              \* memory clock as last displayed
  isTimerActive,      \* memory clock requested to run
  memoryClickCount,   \* accepted tile clicks
  intervalOn,         \* the setInterval of the timer effect is live (timerRef)
  elapsed,            \* performance.now() - start of the live interval
  listeningOptions,   \* the option texts of the listening turn
  listeningFeedback,  \* 'correct' | 'wrong' | null
  lastCall,           \* the handler or callback that ran last, and its outcome
  apiKey,             \* process.env.API_KEY as built in
  hasAudioContext,    \* window.AudioContext || window.webkitAudioContext exists
  hasSpeech,          \* 'speechSynthesis' in window
  audioContext,       \* the module's AudioContext: "null", or its state
  audioCache,         \* the lookup audioCache[text] of every text
  calls,              \* the playTextToSpeech calls made, in call order
  finished,           \* the calls whose promise has settled, in settling order
  spoken,             \* the text of the utterance last handed to speechSynthesis
  pcmData,            \* the bytes given to decodePCM
  pcmLittleEndian,    \* the byte order of the platform's Int16Array
  pcmBuffer,          \* what decodePCM returned
  activeDeck,         \* App: a deck is open, StudySession is mounted
  saveCalls,          \* calls of saveStudentProgress made for the session
  savesPending,       \* handleSessionComplete calls awaiting their save
  saved,              \* the records given to saveStudentProgress, in call order
  allProgress,        \* App: the StudentProgress records last loaded
  user,               \* the username of the learner signed in
  leaderboard         \* a render of the leaderboard: its inputs and leaderboardData

memoryVars == <<memoryCards, selectedIndices, timer, isTimerActive, memoryClickCount,
                intervalOn, elapsed>>
listeningVars == <<listeningOptions, listeningFeedback>>
sessionVars == <<mode, cards, currentIndex, isFlipped, showStats, historyCount, streak,
                 animationClass, timeouts, memoryCards, selectedIndices, timer,
                 isTimerActive, memoryClickCount, intervalOn, elapsed, listeningOptions,
                 listeningFeedback, lastCall>>
audioVars == <<apiKey, hasAudioContext, hasSpeech, audioContext, audioCache, calls,
               finished, spoken>>
decodeVars == <<pcmData, pcmLittleEndian, pcmBuffer>>
appVars == <<activeDeck, saveCalls, savesPending, saved>>
boardVars == <<allProgress, user, leaderboard>>
serviceVars == <<audioVars, decodeVars, appVars, boardVars>>
vars == <<sessionVars, audioVars, decodeVars, appVars, boardVars>>

(* --------------------------------------------------------------- helpers *)
Min(a, b) == IF a < b THEN a ELSE b
Max(a, b) == IF a > b THEN a ELSE b

\* s[i] of a 0-based array
At(s, i) == s[i + 1]

\* [...s] with s[i] = v
SetAt(s, i, v) == [s EXCEPT ![i + 1] = v]

\* s.splice(i, 1): the array without its element i
RemoveAt(s, i) == [k \in 1..(Len(s) - 1) |-> IF k <= i THEN s[k] ELSE s[k + 1]]

\* s.splice(i, 0, v): v inserted so that it ends at index i
InsertAt(s, i, v) ==
  [k \in 1..(Len(s) + 1) |-> IF k <= i THEN s[k] ELSE IF k = i + 1 THEN v ELSE s[k - 1]]

\* every order a comparator-random sort can leave n elements in
Perms(n) == {p \in [1..n -> 1..n] : \A i, j \in 1..n : i # j => p[i] # p[j]}

\* the record of the last handler run: result is "done", "noop" (early return) or "threw"
Call(op, result) == [op |-> op, result |-> result]

\* a pending setTimeout callback and what its closure captured
Timeout(kind, delay, a, b) == [kind |-> kind, delay |-> delay, a |-> a, b |-> b]

\* a Flashcard: identity, back text, mastery (front text and notes are display only)
Card(i, b, m) == [id |-> i, back |-> b, masteryScore |-> m]

\* the decks a session can be opened on: n cards with distinct ids
Deck(n) == [i \in 1..n |-> Card(i, i, 0)]

(* ------------------------------------------------------------------ Init *)
\* the deck order alone: the one shuffle followed where the order is never read
Unshuffled(n) == {[k \in 1..n |-> k]}

\* StudySession after mount: mode not chosen, cards = shuffled deck at mastery 0;
\* every order of the working set is followed, or (anyOrder false) the deck order
SessionInit(maxN, anyOrder) ==
  /\ mode = "null"
  /\ \E n \in 0..maxN : \E p \in (IF anyOrder THEN Perms(n) ELSE Unshuffled(n)) :
       cards = [k \in 1..n |-> [Deck(n)[p[k]] EXCEPT !.masteryScore = 0]]
  /\ currentIndex = 0
  /\ isFlipped = FALSE
  /\ showStats = FALSE
  /\ historyCount = 0
  /\ streak = 0
  /\ animationClass = ""
  /\ timeouts = <<>>
  /\ memoryCards = <<>>
  /\ selectedIndices = <<>>
  /\ timer = 0
  /\ isTimerActive = FALSE
  /\ memoryClickCount = 0
  /\ intervalOn = FALSE
  /\ elapsed = 0
  /\ listeningOptions = <<>>
  /\ listeningFeedback = "null"
  /\ lastCall = Call("mount", "done")

\* no cache entry yet; a buffer in the cache carries the call that decoded it
NoEntry == [id |-> 0, channelData |-> <<>>]

\* the texts spoken: a word, and a word that names a property every object inherits
Texts == {"neko", "constructor"}

\* audio.ts after module load: no AudioContext, audioCache = {}, no call made
AudioIdle ==
  /\ audioContext = "null"
  /\ audioCache = [t \in Texts |-> NoEntry]
  /\ calls = <<>>
  /\ finished = <<>>
  /\ spoken = ""

\* decodePCM not called
NotDecoded == [state |-> "none", channelData |-> <<>>]

DecodeIdle ==
  /\ pcmData = <<>>
  /\ pcmLittleEndian = TRUE
  /\ pcmBuffer = NotDecoded

\* App with a deck opened (setActiveDeck(deck)): StudySession mounted, nothing saved
AppOpen ==
  /\ activeDeck = TRUE
  /\ saveCalls = 0
  /\ savesPending = 0
  /\ saved = <<>>

\* pb === null (a memory time kept in a record is positive)
NoPB == 0

\* the leaderboard not rendered; a render keeps the mode and the clock it was made
\* with, and leaderboardData: null ("null") or { pb, top3, isNewPB } ("data")
NotRendered ==
  [mode |-> "null", timer |-> 0, data |-> "none", pb |-> NoPB, isNewPB |-> FALSE,
   top3 |-> <<>>]

\* no record loaded, nobody's leaderboard rendered
BoardIdle ==
  /\ allProgress = <<>>
  /\ user = "aki"
  /\ leaderboard = NotRendered

\* a session followed without its audio: a browser with every audio feature and a
\* credential built in, the service idle (the session reads none of this)
InitWith(maxN, anyOrder) ==
  /\ SessionInit(maxN, anyOrder)
  /\ apiKey = "valid"
  /\ hasAudioContext = TRUE
  /\ hasSpeech = TRUE
  /\ AudioIdle
  /\ DecodeIdle
  /\ AppOpen
  /\ BoardIdle

Init == InitWith(MaxCards, TRUE)

\* the memory game reads deck.cards, never the order of the working set
MemoryInit == InitWith(MaxMemoryCards, FALSE)

(* ----------------------------------------------------------- flip-card -- *)
\* the screen shown whatever the mode
ModeSelection_Always == TRUE

\* if (!mode) return <the mode selection screen>: its buttons exist on it alone
ModeSelection == mode = "null"

\* mode selection screen: the flip-card button
SelectFlashcard ==
  /\ activeDeck
  /\ ModeSelection
  /\ mode' = "FLASHCARD"
  /\ lastCall' = Call("setMode", "done")
  /\ UNCHANGED <<cards, currentIndex, isFlipped, showStats, historyCount, streak,
                 animationClass, timeouts, memoryVars, listeningVars>>
  /\ UNCHANGED serviceVars

\* const currentCard = cards[currentIndex]
HasCurrentCard == currentIndex < Len(cards)
currentCard == At(cards, currentIndex)

\* findNext without the mastery test: the scan stops at its start
findNext_NoMasteryTest(upd, start) == IF Len(upd) = 0 THEN -1 ELSE start

\* findNext(start) over updatedCards: first unmastered index scanning forward with wrap
findNext(upd, start) ==
  LET n == Len(upd)
      hits == {i \in 0..(n - 1) : At(upd, (start + i) % n).masteryScore < MAX_MASTERY}
  IN IF hits = {} THEN -1
     ELSE (start + (CHOOSE i \in hits : \A j \in hits : i <= j)) % n

\* moveToNextAvailable scanning forward only, without the wrap to index 0
finalNextIdx_NoWrap(upd, lastActionWasIncorrect) ==
  LET nextIdx == IF lastActionWasIncorrect THEN currentIndex ELSE currentIndex + 1
      hits == {i \in nextIdx..(Len(upd) - 1) : At(upd, i).masteryScore < MAX_MASTERY}
  IN IF hits = {} THEN -1 ELSE CHOOSE i \in hits : \A j \in hits : i <= j

\* moveToNextAvailable stepping to the next index without the scan of findNext
finalNextIdx_NoScan(upd, lastActionWasIncorrect) ==
  LET nextIdx0 == IF lastActionWasIncorrect THEN currentIndex ELSE currentIndex + 1
      nextIdx == IF nextIdx0 >= Len(upd) THEN 0 ELSE nextIdx0
  IN IF \A k \in DOMAIN upd : upd[k].masteryScore >= MAX_MASTERY THEN -1 ELSE nextIdx

\* moveToNextAvailable up to its setTimeout: the index the transition will show
finalNextIdx(upd, lastActionWasIncorrect) ==
  LET nextIdx0 == IF lastActionWasIncorrect THEN currentIndex ELSE currentIndex + 1
      nextIdx == IF nextIdx0 >= Len(upd) THEN 0 ELSE nextIdx0
  IN findNext(upd, nextIdx)

\* the clamp with the lower bound of the scan-forward variant, Math.max(-1, ...)
newMastery_PenalizedFloor(scoreChange, isMastered) ==
  IF isMastered THEN MAX_MASTERY
  ELSE Min(MAX_MASTERY, Max(-1, At(cards, currentIndex).masteryScore + scoreChange))

\* the clamp of handleGrade
newMastery(scoreChange, isMastered) ==
  IF isMastered THEN MAX_MASTERY
  ELSE Min(MAX_MASTERY, Max(0, currentCard.masteryScore + scoreChange))

\* handleGrade storing the card ungraded on a correct grade (newMastery dropped)
updatedCards_CorrectNotStored(scoreChange, isMastered) ==
  LET c == At(cards, currentIndex)
      m == IF isMastered THEN MAX_MASTERY
           ELSE IF scoreChange < 0 THEN Max(0, c.masteryScore + scoreChange)
           ELSE c.masteryScore
      graded == [c EXCEPT !.masteryScore = m]
  IN IF scoreChange < 0
     THEN LET rest == RemoveAt(cards, currentIndex)
          IN InsertAt(rest, Min(Len(rest), currentIndex + REQUEUE_OFFSET), graded)
     ELSE SetAt(cards, currentIndex, graded)

\* the requeue that always appends the missed card at the end
updatedCards_RequeueAtEnd(scoreChange, isMastered) ==
  LET graded == [currentCard EXCEPT !.masteryScore = newMastery(scoreChange, isMastered)]
  IN IF scoreChange < 0
     THEN LET rest == RemoveAt(cards, currentIndex)
          IN InsertAt(rest, Len(rest), graded)
     ELSE SetAt(cards, currentIndex, graded)

\* the requeue that inserts the missed card without removing it first
updatedCards_NotRemoved(scoreChange, isMastered) ==
  LET graded == [currentCard EXCEPT !.masteryScore = newMastery(scoreChange, isMastered)]
  IN IF scoreChange < 0
     THEN InsertAt(cards, Min(Len(cards), currentIndex + REQUEUE_OFFSET), graded)
     ELSE SetAt(cards, currentIndex, graded)

\* the requeue of handleGrade: the working set after the grade
updatedCards(scoreChange, isMastered) ==
  LET graded == [currentCard EXCEPT !.masteryScore = newMastery(scoreChange, isMastered)]
  IN IF scoreChange < 0
     THEN LET rest == RemoveAt(cards, currentIndex)
              insertAt == Min(Len(rest), currentIndex + REQUEUE_OFFSET)
          IN InsertAt(rest, insertAt, graded)
     ELSE SetAt(cards, currentIndex, graded)

\* the guard of the scan-forward variant's neighbour: no animation test
GradeRejected_NoAnimationTest == ~(currentIndex < Len(cards))

\* if (animationClass || !currentCard) return;
GradeRejected == animationClass # "" \/ ~HasCurrentCard

\* the three grades the UI gives: handleGrade(-1), handleGrade(1), handleGrade(0, true)
Grades == {<<-1, FALSE>>, <<1, FALSE>>, <<0, TRUE>>}

\* a counter of the session: as it is, or (endless) kept up to MaxCounted
Counted(n, endless) == IF endless THEN Min(n, MaxCounted) ELSE n

\* the grade buttons and the swipe of handlePointerUp call it on a flipped card only;
\* the learner stops after MaxHistory answers, or (endless) never
handleGradeCounting(scoreChange, isMastered, endless) ==
  /\ activeDeck
  /\ mode = "FLASHCARD"
  /\ ~showStats
  /\ isFlipped
  /\ endless \/ historyCount < MaxHistory
  /\ IF GradeRejected
     THEN /\ lastCall' = Call("handleGrade", "noop")
          /\ UNCHANGED <<mode, cards, currentIndex, isFlipped, showStats, historyCount,
                         streak, animationClass, timeouts, memoryVars, listeningVars>>
     ELSE LET upd == updatedCards(scoreChange, isMastered)
              isIncorrect == scoreChange < 0
          IN /\ animationClass' = (IF isMastered THEN "anim-fly-up"
                                   ELSE IF scoreChange > 0 THEN "anim-fly-left"
                                   ELSE "anim-fly-right")
             /\ cards' = upd
             /\ streak' = Counted(IF isIncorrect THEN 0 ELSE streak + 1, endless)
             /\ historyCount' = Counted(historyCount + 1, endless)
             /\ timeouts' = Append(timeouts,
                  Timeout("transition", TRANSITION_DELAY_MS,
                          finalNextIdx(upd, isIncorrect), 0))
             /\ lastCall' = Call("handleGrade", "done")
             /\ UNCHANGED <<mode, currentIndex, isFlipped, showStats, memoryVars,
                            listeningVars>>
  /\ UNCHANGED serviceVars

handleGrade(scoreChange, isMastered) == handleGradeCounting(scoreChange, isMastered, FALSE)

Grade == \E g \in Grades : handleGrade(g[1], g[2])

\* a grade of a learner who never stops grading
EndlessGrade == \E g \in Grades : handleGradeCounting(g[1], g[2], TRUE)

\* such a grade when handleGrade accepts it
AcceptedGrade == ~GradeRejected /\ EndlessGrade

\* handlePointerUp, tap branch: setIsFlipped(!isFlipped)
Flip ==
  /\ activeDeck
  /\ mode = "FLASHCARD"
  /\ ~showStats
  /\ animationClass = ""
  /\ isFlipped' = ~isFlipped
  /\ lastCall' = Call("flip", "done")
  /\ UNCHANGED <<mode, cards, currentIndex, showStats, historyCount, streak,
                 animationClass, timeouts, memoryVars, listeningVars>>
  /\ UNCHANGED serviceVars

\* the setTimeout callback of moveToNextAvailable
TransitionFires(k) ==
  /\ activeDeck
  /\ k \in DOMAIN timeouts
  /\ timeouts[k].kind = "transition"
  /\ IF timeouts[k].a = -1
     THEN showStats' = TRUE /\ UNCHANGED <<currentIndex, isFlipped>>
     ELSE currentIndex' = timeouts[k].a /\ isFlipped' = FALSE /\ UNCHANGED showStats
  /\ animationClass' = ""
  /\ timeouts' = RemoveAt(timeouts, k - 1)
  /\ lastCall' = Call("transition", "done")
  /\ UNCHANGED <<mode, cards, historyCount, streak, memoryVars, listeningVars>>
  /\ UNCHANGED serviceVars

Transition == \E k \in DOMAIN timeouts : TransitionFires(k)

(* -------------------------------------------------------------- memory -- *)
\* a tile of the memory game
Tile(i, t) == [id |-> i, type |-> t, isFlipped |-> FALSE, isMatched |-> FALSE]

\* the sample that takes the whole deck, without slice(0, MEMORY_PAIR_COUNT)
Samples_WholeDeck == {{cards[k].id : k \in DOMAIN cards}}

\* the samples startMemoryGame can draw: the first MEMORY_PAIR_COUNT cards of a
\* shuffled deck, i.e. any cards of the deck, that many or all of them
Samples ==
  LET ids == {cards[k].id : k \in DOMAIN cards}
      size == Min(MEMORY_PAIR_COUNT, Len(cards))
  IN {S \in SUBSET ids : Cardinality(S) = size}

\* the sample as a list, by id
RECURSIVE SortedSeq(_)
SortedSeq(S) ==
  IF S = {} THEN <<>>
  ELSE LET m == CHOOSE x \in S : \A y \in S : x <= y
       IN <<m>> \o SortedSeq(S \ {m})

\* [...fronts, ...backs] of the sample, before the shuffle
Pairs(S) ==
  LET sel == SortedSeq(S)
  IN [k \in 1..Len(sel) |-> Tile(sel[k], "front")] \o
     [k \in 1..Len(sel) |-> Tile(sel[k], "back")]

\* the tile orders the shuffle is followed for: rotations of the list
Rotate(s, r) == [k \in 1..Len(s) |-> s[((k - 1 + r) % Len(s)) + 1]]

\* a timer effect that starts the interval whatever isTimerActive is
TimerEffect_AlwaysOn(active) == TRUE

\* the timer effect, run when isTimerActive changes: the interval is live iff active
TimerEffect(active) == active

startMemoryGame ==
  /\ activeDeck
  /\ ModeSelection
  /\ \E S \in Samples : \E r \in 0..MaxRotation :
       memoryCards' = Rotate(Pairs(S), r)
  /\ mode' = "MEMORY"
  /\ timer' = 0
  /\ memoryClickCount' = 0
  /\ isTimerActive' = FALSE
  /\ intervalOn' = TimerEffect(FALSE)
  /\ lastCall' = Call("startMemoryGame", "done")
  /\ UNCHANGED <<cards, currentIndex, isFlipped, showStats, historyCount, streak,
                 animationClass, timeouts, selectedIndices, elapsed, listeningVars>>
  /\ UNCHANGED serviceVars

\* the click guard without the two-selected lock
ClickRejected_NoLock(index) ==
  \/ At(memoryCards, index).isFlipped
  \/ At(memoryCards, index).isMatched

\* if (selectedIndices.length === 2 || tile.isFlipped || tile.isMatched) return;
ClickRejected(index) ==
  \/ Len(selectedIndices) = 2
  \/ At(memoryCards, index).isFlipped
  \/ At(memoryCards, index).isMatched

\* the match test on the side tags alone
IsMatch_TypeOnly(first, second) ==
  At(memoryCards, first).type # At(memoryCards, second).type

\* the match test of handleMemoryClick
IsMatch(first, second) ==
  /\ At(memoryCards, first).id = At(memoryCards, second).id
  /\ At(memoryCards, first).type # At(memoryCards, second).type

\* the resolution that sets no timer for a mismatch
ResolveTimeout_NoMismatchTimer(first, second) ==
  IF IsMatch(first, second)
  THEN Timeout("match", MATCH_DELAY_MS, first, second)
  ELSE Timeout("dropped", 0, first, second)

\* the timeout handleMemoryClick schedules once two tiles are selected
ResolveTimeout(first, second) ==
  IF IsMatch(first, second)
  THEN Timeout("match", MATCH_DELAY_MS, first, second)
  ELSE Timeout("mismatch", MISMATCH_DELAY_MS, first, second)

\* a click counter that counts pairs: it moves on the second tile of a selection only
nextClickCount_PerPair(prev) == IF Len(selectedIndices) = 1 THEN prev + 1 ELSE prev

\* setMemoryClickCount(prev => prev + 1)
nextClickCount(prev) == prev + 1

\* the learner stops after MaxClicks accepted clicks, or (endless) never
handleMemoryClickCounting(index, endless) ==
  /\ activeDeck
  /\ mode = "MEMORY"
  /\ ~showStats
  /\ index \in 0..(Len(memoryCards) - 1)
  /\ IF ClickRejected(index)
     THEN /\ lastCall' = Call("handleMemoryClick", "noop")
          /\ UNCHANGED <<mode, cards, currentIndex, isFlipped, showStats, historyCount,
                         streak, animationClass, timeouts, memoryVars, listeningVars>>
     ELSE LET newSelected == Append(selectedIndices, index)
          IN /\ endless \/ memoryClickCount < MaxClicks
             /\ isTimerActive' = TRUE
             /\ intervalOn' = TimerEffect(TRUE)
             /\ elapsed' = (IF isTimerActive THEN elapsed ELSE 0)
             /\ memoryClickCount' = Counted(nextClickCount(memoryClickCount), endless)
             /\ memoryCards' = [memoryCards EXCEPT ![index + 1].isFlipped = TRUE]
             /\ selectedIndices' = newSelected
             /\ timeouts' = (IF Len(newSelected) = 2
                             THEN Append(timeouts,
                                         ResolveTimeout(newSelected[1], newSelected[2]))
                             ELSE timeouts)
             /\ lastCall' = Call("handleMemoryClick", "done")
             /\ UNCHANGED <<mode, cards, currentIndex, isFlipped, showStats, historyCount,
                            streak, animationClass, timer, listeningVars>>
  /\ UNCHANGED serviceVars

handleMemoryClick(index) == handleMemoryClickCounting(index, FALSE)

MemoryClick == \E index \in 0..(Len(memoryCards) - 1) : handleMemoryClick(index)

\* a click of a learner who never stops clicking
EndlessClick ==
  \E index \in 0..(Len(memoryCards) - 1) : handleMemoryClickCounting(index, TRUE)

\* such a click when handleMemoryClick accepts it
AcceptedClick ==
  \E index \in 0..(Len(memoryCards) - 1) :
    ~ClickRejected(index) /\ handleMemoryClickCounting(index, TRUE)

\* such a click on the partner of the one tile selected
MatchingClick ==
  \E index \in 0..(Len(memoryCards) - 1) :
    /\ Len(selectedIndices) = 1
    /\ ~ClickRejected(index)
    /\ IsMatch(selectedIndices[1], index)
    /\ handleMemoryClickCounting(index, TRUE)

\* matchedCards.some(c => c.isMatched)
AllMatched_Some(tiles) == \E k \in DOMAIN tiles : tiles[k].isMatched

\* matchedCards.every(c => c.isMatched)
AllMatched(tiles) == \A k \in DOMAIN tiles : tiles[k].isMatched

\* the 600 ms callback of a match
MatchFires(k) ==
  /\ activeDeck
  /\ k \in DOMAIN timeouts
  /\ timeouts[k].kind = "match"
  /\ LET first == timeouts[k].a
         second == timeouts[k].b
         matchedCards == [memoryCards EXCEPT ![first + 1].isMatched = TRUE,
                                             ![second + 1].isMatched = TRUE]
     IN /\ memoryCards' = matchedCards
        /\ selectedIndices' = <<>>
        /\ IF AllMatched(matchedCards)
           THEN /\ isTimerActive' = FALSE
                /\ intervalOn' = TimerEffect(FALSE)
                /\ showStats' = TRUE
           ELSE UNCHANGED <<isTimerActive, intervalOn, showStats>>
  /\ timeouts' = RemoveAt(timeouts, k - 1)
  /\ lastCall' = Call("match", "done")
  /\ UNCHANGED <<mode, cards, currentIndex, isFlipped, historyCount, streak,
                 animationClass, timer, memoryClickCount, elapsed, listeningVars>>
  /\ UNCHANGED serviceVars

\* the reset that turns the first tile of the selection back and leaves the second
resetCards_FirstOnly(first, second) ==
  [memoryCards EXCEPT ![first + 1].isFlipped = FALSE]

\* resetCards of the mismatch callback: both tiles face-down again
resetCards(first, second) ==
  [memoryCards EXCEPT ![first + 1].isFlipped = FALSE, ![second + 1].isFlipped = FALSE]

\* the 800 ms callback of a mismatch
MismatchFires(k) ==
  /\ activeDeck
  /\ k \in DOMAIN timeouts
  /\ timeouts[k].kind = "mismatch"
  /\ memoryCards' = resetCards(timeouts[k].a, timeouts[k].b)
  /\ selectedIndices' = <<>>
  /\ timeouts' = RemoveAt(timeouts, k - 1)
  /\ lastCall' = Call("mismatch", "done")
  /\ UNCHANGED <<mode, cards, currentIndex, isFlipped, showStats, historyCount, streak,
                 animationClass, timer, isTimerActive, memoryClickCount, intervalOn,
                 elapsed, listeningVars>>
  /\ UNCHANGED serviceVars

Match == \E k \in DOMAIN timeouts : MatchFires(k)
Mismatch == \E k \in DOMAIN timeouts : MismatchFires(k)

\* performance.now() moves on while the interval is followed
TimePasses ==
  /\ intervalOn
  /\ elapsed < MaxElapsed
  /\ elapsed' = elapsed + 1
  /\ UNCHANGED <<mode, cards, currentIndex, isFlipped, showStats, historyCount, streak,
                 animationClass, timeouts, memoryCards, selectedIndices, timer,
                 isTimerActive, memoryClickCount, intervalOn, listeningVars, lastCall>>
  /\ UNCHANGED serviceVars

\* the setInterval callback: setTimer((performance.now() - start) / 1000)
Tick ==
  /\ intervalOn
  /\ timer' = elapsed
  /\ UNCHANGED <<mode, cards, currentIndex, isFlipped, showStats, historyCount, streak,
                 animationClass, timeouts, memoryCards, selectedIndices, isTimerActive,
                 memoryClickCount, intervalOn, elapsed, listeningVars, lastCall>>
  /\ UNCHANGED serviceVars

(* ----------------------------------------------------------- listening -- *)
\* the option lists setupListeningTurn(idx) can build, as lists of card indices:
\* the correct card and up to DISTRACTOR_COUNT other cards, in any order
OptionOrders(idx) ==
  LET correct == At(cards, idx)
      others == {i \in 0..(Len(cards) - 1) : At(cards, i).id # correct.id}
      m == 1 + Min(DISTRACTOR_COUNT, Cardinality(others))
  IN {o \in [1..m -> {idx} \cup others] :
        /\ \A i, j \in 1..m : i # j => o[i] # o[j]
        /\ \E i \in 1..m : o[i] = idx}

\* setupListeningTurn(idx): options and feedback (it throws on cards[idx] undefined);
\* its playTextToSpeech(correct.front) is not awaited and touches the audio service
\* alone, whose calls are followed in AudioSpec and, with the session, in SpokenSpec
setupListeningTurn(idx) ==
  /\ \E o \in OptionOrders(idx) :
       listeningOptions' = [k \in DOMAIN o |-> At(cards, o[k]).back]
  /\ listeningFeedback' = "null"

\* startListeningGame in the session's own state
startListeningGameSession ==
  /\ activeDeck
  /\ ModeSelection
  /\ mode' = "LISTENING"
  /\ IF Len(cards) = 0
     THEN /\ lastCall' = Call("startListeningGame", "threw")
          /\ UNCHANGED listeningVars
     ELSE /\ setupListeningTurn(0)
          /\ lastCall' = Call("startListeningGame", "done")
  /\ UNCHANGED <<cards, currentIndex, isFlipped, showStats, historyCount, streak,
                 animationClass, timeouts, memoryVars>>

startListeningGame ==
  /\ startListeningGameSession
  /\ UNCHANGED serviceVars

\* the comparison against the first card of the working set instead of the current one
isCorrect_FirstCard(answer) == answer = At(cards, 0).back

\* const isCorrect = answer === cards[currentIndex].back
isCorrect(answer) == answer = At(cards, currentIndex).back

handleListeningAnswer(answer) ==
  /\ activeDeck
  /\ mode = "LISTENING"
  /\ ~showStats
  /\ IF listeningFeedback # "null"
     THEN /\ lastCall' = Call("handleListeningAnswer", "noop")
          /\ UNCHANGED <<mode, cards, currentIndex, isFlipped, showStats, historyCount,
                         streak, animationClass, timeouts, memoryVars, listeningVars>>
     ELSE LET correct == isCorrect(answer)
          IN /\ listeningFeedback' = (IF correct THEN "correct" ELSE "wrong")
             /\ cards' = [k \in DOMAIN cards |->
                            IF k - 1 = currentIndex
                            THEN [cards[k] EXCEPT !.masteryScore =
                                    IF correct THEN MAX_MASTERY ELSE 0]
                            ELSE cards[k]]
             /\ historyCount' = historyCount + 1
             /\ streak' = (IF correct THEN streak + 1 ELSE 0)
             /\ timeouts' = Append(timeouts,
                                   Timeout("advance", ADVANCE_DELAY_MS, currentIndex, 0))
             /\ lastCall' = Call("handleListeningAnswer", "done")
             /\ UNCHANGED <<mode, currentIndex, isFlipped, showStats, animationClass,
                            memoryVars, listeningOptions>>
  /\ UNCHANGED serviceVars

ListeningAnswer ==
  \E k \in DOMAIN listeningOptions : handleListeningAnswer(listeningOptions[k])

\* the end test one card early
isLastCard_OneEarly(idx) == idx + 2 >= Len(cards)

\* if (currentIndex + 1 >= cards.length), on the index the callback captured
isLastCard(idx) == idx + 1 >= Len(cards)

\* the 1200 ms callback of handleListeningAnswer in the session's own state
AdvanceFiresSession(k) ==
  /\ activeDeck
  /\ k \in DOMAIN timeouts
  /\ timeouts[k].kind = "advance"
  /\ LET next == timeouts[k].a + 1
     IN IF isLastCard(timeouts[k].a)
        THEN showStats' = TRUE /\ UNCHANGED <<currentIndex, listeningVars>>
        ELSE currentIndex' = next /\ setupListeningTurn(next) /\ UNCHANGED showStats
  /\ timeouts' = RemoveAt(timeouts, k - 1)
  /\ lastCall' = Call("advance", "done")
  /\ UNCHANGED <<mode, cards, isFlipped, historyCount, streak, animationClass, memoryVars>>

\* the 1200 ms callback of handleListeningAnswer
AdvanceFires(k) ==
  /\ AdvanceFiresSession(k)
  /\ UNCHANGED serviceVars

Advance == \E k \in DOMAIN timeouts : AdvanceFires(k)

(* --------------------------------------------------------------- stats -- *)
RECURSIVE SumMastery(_)
SumMastery(s) == IF s = <<>> THEN 0 ELSE Head(s).masteryScore + SumMastery(Tail(s))

\* Math.ceil(p / q * 100) in place of the rounding
RoundPercent_Ceiling(p, q) == (100 * p + q - 1) \div q

\* Math.round(p / q * 100) for p >= 0, q > 0
RoundPercent(p, q) == (200 * p + q) \div (2 * q)

\* the count with > for >=
masteredCount_Strict == Cardinality({k \in DOMAIN cards : cards[k].masteryScore > MAX_MASTERY})

\* cards.filter(c => c.masteryScore >= MAX_MASTERY).length
masteredCount == Cardinality({k \in DOMAIN cards : cards[k].masteryScore >= MAX_MASTERY})

progressValue ==
  IF mode = "MEMORY"
  THEN IF memoryClickCount > 0
       THEN Min(100, RoundPercent(MEMORY_PERFECT_CLICKS, memoryClickCount))
       ELSE 0
  ELSE IF Len(cards) * MAX_MASTERY > 0
       THEN RoundPercent(SumMastery(cards), Len(cards) * MAX_MASTERY)
       ELSE 0

\* the stats that count, in memory mode, the pairs played as the total
stats_PairsPlayed ==
  [mastered |-> masteredCount,
   total |-> IF mode = "MEMORY" THEN Len(memoryCards) \div 2 ELSE Len(cards),
   progress |-> progressValue,
   memoryTime |-> IF mode = "MEMORY" THEN timer ELSE -1]

\* the stats of the session, as given to onClose
stats == [mastered |-> masteredCount, total |-> Len(cards), progress |-> progressValue,
          memoryTime |-> IF mode = "MEMORY" THEN timer ELSE -1]

(* ----------------------------------------------------------------- app -- *)
\* StudySession is unmounted: the cleanup of the timer effect runs
\* clearInterval(timerRef.current); no setTimeout is cleared anywhere
Unmount ==
  /\ activeDeck' = FALSE
  /\ intervalOn' = FALSE

\* the record handleSessionComplete gives to saveStudentProgress (username and
\* deckName are those of the session); memoryTime is -1 where it is undefined
handleSessionComplete(masteryPercentage, cardsMastered, totalCards, memoryTime) ==
  [masteryPercentage |-> masteryPercentage, cardsMastered |-> cardsMastered,
   totalCards |-> totalCards, memoryTime |-> memoryTime]

\* the stats screen's button, onClose(stats): handleSessionComplete up to its await
\* (user && activeDeck hold in the render that shows the button); the screen and
\* its button stay until the save settles
CloseFromStats ==
  /\ activeDeck
  /\ ~ModeSelection
  /\ showStats
  /\ saveCalls < MaxSaves
  /\ saveCalls' = saveCalls + 1
  /\ savesPending' = savesPending + 1
  /\ saved' = Append(saved, handleSessionComplete(stats.progress, stats.mastered,
                                                  stats.total, stats.memoryTime))
  /\ lastCall' = Call("onClose(stats)", "done")
  /\ UNCHANGED <<mode, cards, currentIndex, isFlipped, showStats, historyCount, streak,
                 animationClass, timeouts, memoryVars, listeningVars, activeDeck>>
  /\ UNCHANGED <<audioVars, decodeVars, boardVars>>

\* await saveStudentProgress(...) settles (it never rejects): loadData(), then
\* setActiveDeck(null)
SaveSettles ==
  /\ savesPending > 0
  /\ savesPending' = savesPending - 1
  /\ Unmount
  /\ lastCall' = Call("handleSessionComplete", "done")
  /\ UNCHANGED <<mode, cards, currentIndex, isFlipped, showStats, historyCount, streak,
                 animationClass, timeouts, memoryCards, selectedIndices, timer,
                 isTimerActive, memoryClickCount, elapsed, listeningVars, saveCalls,
                 saved>>
  /\ UNCHANGED <<audioVars, decodeVars, boardVars>>

\* the session screen's X button, onClose(): setActiveDeck(null)
Abandon ==
  /\ activeDeck
  /\ ~ModeSelection
  /\ ~showStats
  /\ Unmount
  /\ lastCall' = Call("onClose()", "done")
  /\ UNCHANGED <<mode, cards, currentIndex, isFlipped, showStats, historyCount, streak,
                 animationClass, timeouts, memoryCards, selectedIndices, timer,
                 isTimerActive, memoryClickCount, elapsed, listeningVars, saveCalls,
                 savesPending, saved>>
  /\ UNCHANGED <<audioVars, decodeVars, boardVars>>

\* the header's button on every screen, onSettingsClick: setActiveDeck(null)
SettingsClick ==
  /\ activeDeck
  /\ Unmount
  /\ lastCall' = Call("onSettingsClick", "done")
  /\ UNCHANGED <<mode, cards, currentIndex, isFlipped, showStats, historyCount, streak,
                 animationClass, timeouts, memoryCards, selectedIndices, timer,
                 isTimerActive, memoryClickCount, elapsed, listeningVars, saveCalls,
                 savesPending, saved>>
  /\ UNCHANGED <<audioVars, decodeVars, boardVars>>

\* a setTimeout callback of a session no longer mounted: it runs, its state
\* updates are dropped by React (the call the advance callback makes to the audio
\* service is not followed here)
StaleFires(k) ==
  /\ ~activeDeck
  /\ k \in DOMAIN timeouts
  /\ timeouts' = RemoveAt(timeouts, k - 1)
  /\ lastCall' = Call(timeouts[k].kind, "unmounted")
  /\ UNCHANGED <<mode, cards, currentIndex, isFlipped, showStats, historyCount, streak,
                 animationClass, memoryVars, listeningVars>>
  /\ UNCHANGED serviceVars

Stale == \E k \in DOMAIN timeouts : StaleFires(k)

(* --------------------------------------------------------- leaderboard -- *)
\* the deck of the session, and another deck of the sheet
ThisDeck == "deck"
DeckNames == {ThisDeck, "other"}

\* the learners: two names, and a name that is a property every object inherits
Usernames == {"aki", "ben", "constructor"}

\* property names every object inherits: userBestTimes = {} answers them
InheritedNames == {"constructor"}

\* memoryTime of a record: 0 stands for a record without one (undefined is falsy)
RecordTimes == {0, 1, 2}

\* a StudentProgress record, of which the leaderboard reads three fields
StudentProgress(u, d, t) == [username |-> u, deckName |-> d, memoryTime |-> t]

\* the lists of at most n records fetchFullData can return
ProgressLists(n) ==
  UNION {[1..k -> {StudentProgress(u, d, t) :
                     u \in Usernames, d \in DeckNames, t \in RecordTimes}] : k \in 0..n}

\* allProgress.filter(p => p.deckName === deck.name && p.memoryTime)
deckRecords(all, deckName) ==
  LET Kept(p) == p.deckName = deckName /\ p.memoryTime # 0
  IN SelectSeq(all, Kept)

\* deckRecords.filter(p => p.username === user.username)
myRecords(recs, username) ==
  LET Mine(p) == p.username = username
  IN SelectSeq(recs, Mine)

\* Math.min(...recs.map(r => r.memoryTime)) of a non-empty list
RECURSIVE MinTime(_)
MinTime(recs) ==
  IF Len(recs) = 1 THEN recs[1].memoryTime
  ELSE Min(recs[1].memoryTime, MinTime(Tail(recs)))

\* const pb = myRecords.length > 0 ? Math.min(...) : null
pb(mine) == IF Len(mine) > 0 THEN MinTime(mine) ELSE NoPB

\* the test with <= for <
isNewPB_OrEqual(best, t) == IF best # NoPB THEN t <= best ELSE TRUE

\* const isNewPB = pb ? timer < pb : true
isNewPB(best, t) == IF best # NoPB THEN t < best ELSE TRUE

\* userBestTimes after deckRecords.forEach: the own properties of the object in
\* insertion order.  userBestTimes[name] of a name without own property is
\* undefined, or for an inherited name a function of
\* Object.prototype: !fn is false and time < fn is false, nothing is stored
RECURSIVE userBestTimes(_, _)
userBestTimes(recs, own) ==
  IF recs = <<>> THEN own
  ELSE LET r == Head(recs)
           at == {k \in DOMAIN own : own[k].username = r.username}
           stored ==
             IF at = {}
             THEN IF r.username \in InheritedNames THEN own
                  ELSE Append(own, [username |-> r.username, time |-> r.memoryTime])
             ELSE LET k == CHOOSE k \in at : TRUE
                  IN IF r.memoryTime < own[k].time
                     THEN [own EXCEPT ![k].time = r.memoryTime]
                     ELSE own
       IN userBestTimes(Tail(recs), stored)

\* entries.sort((a, b) => a.time - b.time): ascending, equal times in entry order
RECURSIVE SortByTime(_)
SortByTime(entries) ==
  IF entries = <<>> THEN <<>>
  ELSE LET first == CHOOSE k \in DOMAIN entries :
                      \A j \in DOMAIN entries :
                        \/ entries[k].time < entries[j].time
                        \/ entries[k].time = entries[j].time /\ k <= j
       IN <<entries[first]>> \o SortByTime(RemoveAt(entries, first - 1))

\* Object.entries(userBestTimes).map(...).sort(...).slice(0, 3)
top3(recs) ==
  LET sorted == SortByTime(userBestTimes(recs, <<>>))
  IN SubSeq(sorted, 1, Min(3, Len(sorted)))

\* leaderboardData of a render in mode m at clock t
leaderboardData(m, t, all, deckName, username) ==
  IF m # "MEMORY"
  THEN [mode |-> m, timer |-> t, data |-> "null", pb |-> NoPB, isNewPB |-> FALSE,
        top3 |-> <<>>]
  ELSE LET recs == deckRecords(all, deckName)
           best == pb(myRecords(recs, username))
       IN [mode |-> m, timer |-> t, data |-> "data", pb |-> best,
           isNewPB |-> isNewPB(best, t), top3 |-> top3(recs)]

\* a render of StudySession with the records loaded: the useMemo of leaderboardData
RenderLeaderboard ==
  /\ leaderboard = NotRendered
  /\ \E m \in {"FLASHCARD", "MEMORY"} : \E t \in 0..MaxBoardTime :
       leaderboard' = leaderboardData(m, t, allProgress, ThisDeck, user)
  /\ UNCHANGED <<sessionVars, audioVars, decodeVars, appVars, allProgress, user>>

\* the leaderboard over every list of at most MaxRecords records, for every learner
LeaderboardInit ==
  /\ SessionInit(0, FALSE)
  /\ apiKey = "valid"
  /\ hasAudioContext = TRUE
  /\ hasSpeech = TRUE
  /\ AudioIdle
  /\ DecodeIdle
  /\ AppOpen
  /\ allProgress \in ProgressLists(MaxRecords)
  /\ user \in Usernames
  /\ leaderboard = NotRendered

LeaderboardNext == RenderLeaderboard

LeaderboardSpec == LeaderboardInit /\ [][LeaderboardNext]_vars

(* --------------------------------------------------------------- audio -- *)
\* byte values followed: both ends of the range, the sign bit and its neighbours
Bytes == {0, 1, 127, 128, 255}

\* the Uint8Arrays of at most n bytes
ByteSeqs(n) == UNION {[1..k -> Bytes] : k \in 0..n}

\* a 16-bit element read without its sign
Int16_Unsigned(lo, hi) == lo + 256 * hi

\* the Int16Array element of two bytes: two's complement of lo + 256 * hi
Int16(lo, hi) ==
  LET u == lo + 256 * hi
  IN IF u >= PCM_SCALE THEN u - 2 * PCM_SCALE ELSE u

\* const alignedLength = Math.floor(data.byteLength / 2) * 2
alignedLength(byteLength) == (byteLength \div 2) * 2

\* new Int16Array(data.buffer.slice(offset, offset + alignedLength)), platform order
Int16Array(data, littleEndian) ==
  [i \in 1..(alignedLength(Len(data)) \div 2) |->
     IF littleEndian THEN Int16(data[2 * i - 1], data[2 * i])
     ELSE Int16(data[2 * i], data[2 * i - 1])]

\* decodePCM: ctx.createBuffer(1, length, rate) throws NotSupportedError on length 0;
\* channelData[i] = pcmData[i] / 32768.0 is kept as its numerator over PCM_SCALE
decodePCM(data, littleEndian) ==
  LET pcm == Int16Array(data, littleEndian)
  IN IF Len(pcm) = 0
     THEN [state |-> "threw", channelData |-> <<>>]
     ELSE [state |-> "buffer", channelData |-> pcm]

\* atob(base64) on a string given as its characters' 6-bit values (-1: a character
\* outside the alphabet), then the copy to a Uint8Array; atob throws on a foreign
\* character and on a lone last character, and decodeBase64 then returns no bytes
decodeBase64(base64) ==
  LET n == Len(base64)
      sextet(i) == IF i <= n THEN base64[i] ELSE 0
      byte(k) ==
        LET g == 4 * ((k - 1) \div 3)
            pos == (k - 1) % 3
        IN IF pos = 0 THEN sextet(g + 1) * 4 + sextet(g + 2) \div 16
           ELSE IF pos = 1 THEN (sextet(g + 2) % 16) * 16 + sextet(g + 3) \div 4
           ELSE (sextet(g + 3) % 4) * 64 + sextet(g + 4)
  IN IF (\E i \in 1..n : base64[i] \notin 0..63) \/ n % 4 = 1
     THEN <<>>
     ELSE [k \in 1..((6 * n) \div 8) |-> byte(k)]

\* the outcomes of ai.models.generateContent: the request fails, the response has
\* no inlineData, or it carries a base64 string ("", "*A", "AQ", "AIA", "////")
Responses ==
  {[kind |-> "rejected", data |-> <<>>], [kind |-> "undefined", data |-> <<>>]} \cup
  {[kind |-> "data", data |-> d] :
     d \in {<<>>, <<-1, 0>>, <<0, 16>>, <<0, 8, 0>>, <<63, 63, 63, 63>>}}

\* the values process.env.API_KEY is built with ("absent": undefined)
ApiKeys == {"absent", "", "undefined", "valid"}

\* the credential test on falsiness alone
CredentialMissing_FalsyOnly(key) == key = "absent" \/ key = ""

\* if (!apiKey || apiKey === 'undefined' || apiKey === '')
CredentialMissing(key) == key = "absent" \/ key = "undefined" \/ key = ""

\* property names every object inherits: audioCache = {} answers them without an entry
InheritedKeys == {"constructor"}

\* a cache that is never hit
CacheLookup_NeverHit(text) == IF text \in InheritedKeys THEN "inherited" ELSE "miss"

\* if (audioCache[text]): a buffer put there, an inherited property, or nothing
CacheLookup(text) ==
  IF audioCache[text] # NoEntry THEN "buffer"
  ELSE IF text \in InheritedKeys THEN "inherited"
  ELSE "miss"

\* a cache write that stores the buffer under every text
CacheWrite_EveryText(text, buffer) == [t \in DOMAIN audioCache |-> buffer]

\* a cache write that keeps the entry already there
CacheWrite_KeepFirst(text, buffer) ==
  IF audioCache[text] # NoEntry THEN audioCache ELSE [audioCache EXCEPT ![text] = buffer]

\* audioCache[text] = decoded
CacheWrite(text, buffer) == [audioCache EXCEPT ![text] = buffer]

\* playNativeFallback without its feature test: it throws where there is no speech
NativeOutcome_NoFeatureTest(speech) == IF speech THEN "spoken" ELSE "threw"

\* playNativeFallback(text): an utterance is spoken, or (no speechSynthesis) nothing
NativeOutcome(speech) == IF speech THEN "spoken" ELSE "silent"

\* a call of playTextToSpeech(text) as it is entered
NewCall(text) ==
  [text |-> text, pc |-> "start", promise |-> "pending", lookup |-> "", cause |-> "",
   requests |-> 0, writes |-> 0, fallbacks |-> 0, played |-> "none",
   startedAfter |-> Len(finished)]

\* the catch block: the error is logged and playNativeFallback(text) is called; the
\* promise rejects only if that call throws
Caught(rec, cause) ==
  LET out == NativeOutcome(hasSpeech)
  IN [rec EXCEPT !.pc = "done", !.cause = cause, !.fallbacks = @ + 1,
                 !.played = (IF out = "spoken" THEN "native" ELSE "silent"),
                 !.promise = (IF out = "threw" THEN "rejected" ELSE "resolved")]

\* playTextToSpeech from the cache check to the await of the request (lines 91-119)
AfterResume(rec) ==
  LET found == CacheLookup(rec.text)
      looked == [rec EXCEPT !.lookup = found]
  IN IF found = "buffer"
     THEN [looked EXCEPT !.pc = "done", !.played = "cache", !.promise = "resolved"]
     ELSE IF found = "inherited"
     THEN Caught(looked, "cache")
     ELSE IF CredentialMissing(apiKey)
     THEN Caught(looked, "credential")
     ELSE [looked EXCEPT !.pc = "requesting", !.requests = @ + 1]

\* what a step that took call c to rec leaves in the settling order and in the voice
Settled(c, rec) ==
  /\ finished' = (IF rec.pc = "done" THEN Append(finished, c) ELSE finished)
  /\ spoken' = (IF rec.played = "native" THEN rec.text ELSE spoken)

\* continuations of a resolved ctx.resume() are microtasks: they run, in call order,
\* before the next event or response is handled
MicrotaskPending ==
  audioContext = "running" /\ \E c \in DOMAIN calls : calls[c].pc = "resuming"

\* playTextToSpeech(text) up to its first await: the AudioContext is created on the
\* first call (suspended or running, as the autoplay policy has it)
playTextToSpeechCall(text) ==
  /\ Len(calls) < MaxCalls
  /\ ~MicrotaskPending
  /\ LET c == Len(calls) + 1
     IN IF audioContext = "null" /\ ~hasAudioContext
        THEN LET rec == Caught(NewCall(text), "context")
             IN /\ calls' = Append(calls, rec)
                /\ Settled(c, rec)
                /\ UNCHANGED audioContext
        ELSE \E state \in (IF audioContext = "null" THEN {"suspended", "running"}
                           ELSE {audioContext}) :
               LET rec == IF state = "suspended"
                          THEN [NewCall(text) EXCEPT !.pc = "resuming"]
                          ELSE AfterResume(NewCall(text))
               IN /\ audioContext' = state
                  /\ calls' = Append(calls, rec)
                  /\ Settled(c, rec)
  /\ UNCHANGED <<apiKey, hasAudioContext, hasSpeech, audioCache>>

\* a call of playTextToSpeech made outside a session
playTextToSpeech(text) ==
  /\ playTextToSpeechCall(text)
  /\ UNCHANGED <<sessionVars, appVars, boardVars, decodeVars>>

Speak == \E text \in Texts : playTextToSpeech(text)

\* the context starts running: every pending ctx.resume() resolves
ResumeResolves ==
  /\ audioContext = "suspended"
  /\ audioContext' = "running"
  /\ UNCHANGED <<sessionVars, appVars, boardVars, apiKey, hasAudioContext, hasSpeech, audioCache, calls,
                 finished, spoken, decodeVars>>

\* call c goes on after await ctx.resume()
Resumed(c) ==
  /\ c \in DOMAIN calls
  /\ audioContext = "running"
  /\ calls[c].pc = "resuming"
  /\ \A b \in 1..(c - 1) : calls[b].pc # "resuming"
  /\ LET rec == AfterResume(calls[c])
     IN calls' = [calls EXCEPT ![c] = rec] /\ Settled(c, rec)
  /\ UNCHANGED <<sessionVars, appVars, boardVars, apiKey, hasAudioContext, hasSpeech, audioContext,
                 audioCache, decodeVars>>

Resume == \E c \in DOMAIN calls : Resumed(c)

\* the request of call c ends with response r: playTextToSpeech from line 121 on
Responded(c, r) ==
  /\ c \in DOMAIN calls
  /\ calls[c].pc = "requesting"
  /\ ~MicrotaskPending
  /\ LET decoded == decodePCM(decodeBase64(r.data), pcmLittleEndian)
         rec == IF r.kind = "rejected" THEN Caught(calls[c], "request")
                ELSE IF r.kind = "undefined" \/ r.data = <<>>
                THEN Caught(calls[c], "payload")
                ELSE IF decoded.state = "threw" THEN Caught(calls[c], "decode")
                ELSE [calls[c] EXCEPT !.pc = "done", !.writes = @ + 1,
                                      !.played = "remote", !.promise = "resolved"]
     IN /\ calls' = [calls EXCEPT ![c] = rec]
        /\ audioCache' = (IF rec.played = "remote"
                          THEN CacheWrite(calls[c].text,
                                          [id |-> c, channelData |-> decoded.channelData])
                          ELSE audioCache)
        /\ Settled(c, rec)
  /\ UNCHANGED <<sessionVars, appVars, boardVars, apiKey, hasAudioContext, hasSpeech, audioContext,
                 decodeVars>>

Respond == \E c \in DOMAIN calls : \E r \in Responses : Responded(c, r)

\* the audio service in every build and browser, no session followed
AudioInit ==
  /\ SessionInit(0, FALSE)
  /\ apiKey \in ApiKeys
  /\ hasAudioContext \in BOOLEAN
  /\ hasSpeech \in BOOLEAN
  /\ AudioIdle
  /\ DecodeIdle
  /\ AppOpen
  /\ BoardIdle

AudioNext ==
  \/ Speak
  \/ ResumeResolves
  \/ Resume
  \/ Respond

AudioSpec == AudioInit /\ [][AudioNext]_vars

\* a call of decodePCM on the bytes of the run
DecodePCM ==
  /\ pcmBuffer = NotDecoded
  /\ pcmBuffer' = decodePCM(pcmData, pcmLittleEndian)
  /\ UNCHANGED <<sessionVars, appVars, boardVars, audioVars, pcmData, pcmLittleEndian>>

\* decodePCM on every buffer of at most MaxBytes bytes, in either byte order
DecodeInit ==
  /\ SessionInit(0, FALSE)
  /\ apiKey = "valid"
  /\ hasAudioContext = TRUE
  /\ hasSpeech = TRUE
  /\ AudioIdle
  /\ pcmData \in ByteSeqs(MaxBytes)
  /\ pcmLittleEndian \in BOOLEAN
  /\ pcmBuffer = NotDecoded
  /\ AppOpen
  /\ BoardIdle

DecodeNext == DecodePCM

DecodeSpec == DecodeInit /\ [][DecodeNext]_vars

(* ------------------------------------------------ listening with its audio *)
\* the front texts of the deck's cards, by id (two cards may carry the same front)
Fronts == <<"neko", "constructor">>
Front(card) == Fronts[((card.id - 1) % Len(Fronts)) + 1]

\* playTextToSpeech(correct.front) of setupListeningTurn(idx), not awaited
Heard(idx) ==
  /\ playTextToSpeechCall(Front(At(cards, idx)))
  /\ UNCHANGED <<decodeVars, appVars, boardVars>>

\* startListeningGame with the call of its setupListeningTurn(0)
startListeningGameSpoken ==
  /\ startListeningGameSession
  /\ IF Len(cards) = 0 THEN UNCHANGED serviceVars ELSE Heard(0)

\* the advance callback with the call of its setupListeningTurn(next)
AdvanceFiresSpoken(k) ==
  /\ AdvanceFiresSession(k)
  /\ IF isLastCard(timeouts[k].a) THEN UNCHANGED serviceVars ELSE Heard(timeouts[k].a + 1)

AdvanceSpoken == \E k \in DOMAIN timeouts : AdvanceFiresSpoken(k)

\* the speaker button of the listening screen: playTextToSpeech(cards[currentIndex].front)
Replay ==
  /\ activeDeck
  /\ mode = "LISTENING"
  /\ ~showStats
  /\ HasCurrentCard
  /\ Heard(currentIndex)
  /\ lastCall' = Call("replay", "done")
  /\ UNCHANGED <<mode, cards, currentIndex, isFlipped, showStats, historyCount, streak,
                 animationClass, timeouts, memoryVars, listeningVars>>

SpokenNext ==
  \/ startListeningGameSpoken
  \/ ListeningAnswer
  \/ AdvanceSpoken
  \/ Replay
  \/ ResumeResolves
  \/ Resume
  \/ Respond

\* listening sessions with the calls they make to the audio service
SpokenSpec == InitWith(MaxSpokenCards, FALSE) /\ [][SpokenNext]_vars

(* ------------------------------------------------------------------ Next *)
\* flip-card and listening sessions
Next ==
  \/ SelectFlashcard
  \/ Grade
  \/ Flip
  \/ Transition
  \/ startListeningGame
  \/ ListeningAnswer
  \/ Advance

\* memory sessions
MemoryNext ==
  \/ startMemoryGame
  \/ MemoryClick
  \/ Match
  \/ Mismatch
  \/ TimePasses
  \/ Tick

MemorySpec == MemoryInit /\ [][MemoryNext]_vars

Spec == Init /\ [][Next]_vars

\* listening sessions, on decks large enough for DISTRACTOR_COUNT to cut the sample;
\* the turns read the cards by index only, so the deck order stands for every shuffle
ListeningInit == InitWith(MaxListeningCards, FALSE)

ListeningNext ==
  \/ startListeningGame
  \/ ListeningAnswer
  \/ Advance

ListeningSpec == ListeningInit /\ [][ListeningNext]_vars

\* the 1200 ms callback is a setTimeout callback: once scheduled, it runs
ListeningFairSpec ==
  InitWith(MaxFairListeningCards, FALSE) /\ [][ListeningNext]_vars /\ WF_vars(Advance)

\* a pending setTimeout callback runs: the only scheduling the event loop guarantees
TimeoutFires == Transition \/ Match \/ Mismatch \/ Advance

FairNext ==
  \/ SelectFlashcard
  \/ Grade
  \/ Flip
  \/ TimeoutFires
  \/ startMemoryGame
  \/ MemoryClick
  \/ TimePasses
  \/ Tick
  \/ startListeningGame
  \/ ListeningAnswer

FairSpec == InitWith(MaxFairCards, TRUE) /\ [][FairNext]_vars /\ WF_vars(TimeoutFires)

\* a grade while the learner still grades in RequeueSpec
RequeueGrade ==
  /\ historyCount < MaxRequeueGrades
  /\ Grade

RequeueNext ==
  \/ SelectFlashcard
  \/ RequeueGrade
  \/ Flip
  \/ Transition

\* the first answers of flip-card sessions on decks large enough for the offset
RequeueSpec == InitWith(MaxRequeueCards, FALSE) /\ [][RequeueNext]_vars

\* the card turned to its back
TurnToBack == ~isFlipped /\ Flip

MemoryFairNext ==
  \/ startMemoryGame
  \/ EndlessClick
  \/ Match
  \/ Mismatch

\* memory rounds of a learner who keeps clicking (the clock is not followed): every
\* setTimeout callback fires, the learner goes on turning tiles and again and again
\* turns the partner of the tile selected
MemoryFairSpec ==
  /\ InitWith(MaxFairMemoryCards, FALSE)
  /\ [][MemoryFairNext]_vars
  /\ WF_vars(Match)
  /\ WF_vars(Mismatch)
  /\ WF_vars(AcceptedClick)
  /\ SF_vars(MatchingClick)

\* a tile click while the first clicks after the deal are followed
DealClick ==
  /\ memoryClickCount < MaxDealClicks
  /\ MemoryClick

DealNext ==
  \/ startMemoryGame
  \/ DealClick

\* the deal of the memory game on decks smaller and larger than MEMORY_PAIR_COUNT
DealSpec == InitWith(MaxDealCards, FALSE) /\ [][DealNext]_vars

ScheduleNext ==
  \/ SelectFlashcard
  \/ EndlessGrade
  \/ Flip
  \/ Transition

\* flip-card sessions of a learner who keeps grading: every setTimeout callback
\* fires, the learner turns every card shown and goes on giving grades
ScheduleFairSpec ==
  /\ InitWith(MaxScheduleCards, TRUE)
  /\ [][ScheduleNext]_vars
  /\ WF_vars(Transition)
  /\ WF_vars(TurnToBack)
  /\ SF_vars(AcceptedGrade)

\* sessions of every mode with the ways out of them: the stats screen's button,
\* the X button, the header
AppNext ==
  \/ SelectFlashcard
  \/ Grade
  \/ Flip
  \/ Transition
  \/ startMemoryGame
  \/ MemoryClick
  \/ Match
  \/ Mismatch
  \/ TimePasses
  \/ Tick
  \/ startListeningGame
  \/ ListeningAnswer
  \/ Advance
  \/ CloseFromStats
  \/ SaveSettles
  \/ Abandon
  \/ SettingsClick
  \/ Stale

AppSpec == InitWith(MaxAppCards, FALSE) /\ [][AppNext]_vars

(* ================================================================ claims *)
\* vocabulary of the properties
AllMastered == \A k \in DOMAIN cards : cards[k].masteryScore >= MAX_MASTERY
TransitionPending == \E k \in DOMAIN timeouts : timeouts[k].kind = "transition"
FaceUpUnmatched == {i \in 0..(Len(memoryCards) - 1) :
                      At(memoryCards, i).isFlipped /\ ~At(memoryCards, i).isMatched}

\* C1: after any sequence of grades (correct, incorrect, mastered) and listening
\* answers, every card's masteryScore is an integer in [0, MAX_MASTERY].
C1_MasteryInRange ==
  \A k \in DOMAIN cards : cards[k].masteryScore \in 0..MAX_MASTERY

\* an incorrect grade was clamped at 0 while another card sits at MAX_MASTERY
C1_Witness ==
  /\ mode = "FLASHCARD"
  /\ lastCall = Call("handleGrade", "done")
  /\ animationClass = "anim-fly-right"
  /\ \E k \in DOMAIN cards : cards[k].masteryScore = 0
  /\ \E k \in DOMAIN cards : cards[k].masteryScore = MAX_MASTERY

\* C2 as stated: the stats screen is never entered in flip-card mode while a card is
\* below MAX_MASTERY, and whenever every card of the working set is at MAX_MASTERY the
\* session reaches the stats screen.
C2_Original ==
  /\ [](mode = "FLASHCARD" /\ showStats => AllMastered)
  /\ ((mode = "FLASHCARD" /\ AllMastered) ~> showStats)

\* C2 amended: the stats screen is never entered in flip-card mode while a card is
\* below MAX_MASTERY, and whenever every card of a non-empty working set is at
\* MAX_MASTERY the session reaches the stats screen.
C2_TerminatesIffAllMastered ==
  /\ [](mode = "FLASHCARD" /\ showStats => AllMastered)
  /\ ((mode = "FLASHCARD" /\ Len(cards) > 0 /\ AllMastered) ~> showStats)

\* the stats screen of a flip-card session over two cards, entered by the transition
C2_Witness ==
  /\ mode = "FLASHCARD"
  /\ Len(cards) = 2
  /\ AllMastered
  /\ showStats
  /\ lastCall = Call("transition", "done")

\* C3: no mastered card is shown again: whenever no transition is pending and the
\* flip-card session has not ended, the current card is below MAX_MASTERY, and every
\* step that sets the cursor sets it to a card below MAX_MASTERY.
C3_NoMasteredCardShown ==
  /\ [](mode = "FLASHCARD" /\ ~TransitionPending /\ ~showStats /\ HasCurrentCard
          => currentCard.masteryScore < MAX_MASTERY)
  /\ [][mode = "FLASHCARD" /\ currentIndex' # currentIndex
          => At(cards', currentIndex').masteryScore < MAX_MASTERY]_vars

\* the cursor was moved by a transition while another card is already mastered
C3_Witness ==
  /\ mode = "FLASHCARD"
  /\ lastCall = Call("transition", "done")
  /\ ~showStats
  /\ currentIndex > 0
  /\ \E k \in DOMAIN cards : cards[k].masteryScore = MAX_MASTERY

\* C4: a grade invoked while a transition is pending or while no current card exists
\* is a no-op (cards, order, cursor, answer count, streak, animation and timers are
\* unchanged); at most one transition is in flight, and the cursor moves only when
\* that one transition fires.
C4_RejectedGradeIsNoOp ==
  /\ [][lastCall'.op = "handleGrade" /\ (animationClass # "" \/ ~HasCurrentCard)
          => UNCHANGED <<cards, currentIndex, historyCount, streak, animationClass,
                         timeouts, showStats>>]_vars
  /\ [](mode = "FLASHCARD" => Len(timeouts) <= 1)
  /\ [][mode = "FLASHCARD" /\ currentIndex' # currentIndex
          => Len(timeouts) = 1 /\ timeouts' = <<>>]_vars

\* a grade was invoked and rejected while the previous grade's transition is pending
C4_Witness ==
  /\ mode = "FLASHCARD"
  /\ lastCall = Call("handleGrade", "noop")
  /\ animationClass # ""
  /\ TransitionPending
  /\ historyCount = 1

\* C5 as stated: a flip-card session over n cards ends after at most n * MAX_MASTERY
\* accepted grades, whatever grades the learner gives.
C5_Original ==
  mode = "FLASHCARD" => historyCount <= Len(cards) * MAX_MASTERY

\* C5 amended: a flip-card session over n cards in which no incorrect grade is given
\* ends after at most n * MAX_MASTERY accepted grades (streak = historyCount exactly
\* when no incorrect grade was accepted: an incorrect grade resets the streak).
C5_BoundWithoutIncorrect ==
  mode = "FLASHCARD" /\ streak = historyCount
    => /\ historyCount <= SumMastery(cards)
       /\ historyCount <= Len(cards) * MAX_MASTERY
       /\ (historyCount = Len(cards) * MAX_MASTERY => AllMastered)

\* two cards mastered by ten correct grades, the worst case of the bound
C5_Witness ==
  /\ mode = "FLASHCARD"
  /\ Len(cards) = 2
  /\ streak = historyCount
  /\ historyCount = 2 * MAX_MASTERY
  /\ showStats

\* C6: at most two unmatched tiles are face-up, and a click arriving while two tiles
\* are selected flips nothing.
C6_NoThirdTile ==
  /\ [](Cardinality(FaceUpUnmatched) <= 2)
  /\ [][mode = "MEMORY" /\ Len(selectedIndices) = 2 /\ lastCall'.op = "handleMemoryClick"
          => memoryCards' = memoryCards /\ selectedIndices' = selectedIndices]_vars

\* a click on a third, face-down tile was rejected during the resolve delay
C6_Witness ==
  /\ mode = "MEMORY"
  /\ lastCall = Call("handleMemoryClick", "noop")
  /\ Len(selectedIndices) = 2
  /\ Len(timeouts) = 1
  /\ Cardinality(FaceUpUnmatched) = 2
  /\ \E i \in 0..(Len(memoryCards) - 1) :
       ~At(memoryCards, i).isFlipped /\ ~At(memoryCards, i).isMatched

\* C7: in memory mode the stats screen is entered only with every tile matched, and
\* the step that marks the last pair matched enters it.
C7_CompletionIffAllMatched ==
  LET everyTileMatched == \A k \in DOMAIN memoryCards : memoryCards[k].isMatched
  IN mode = "MEMORY" =>
       /\ (showStats => everyTileMatched)
       /\ (Len(memoryCards) > 0 /\ everyTileMatched => showStats)

\* the last of three pairs was marked matched after a mismatch on the way
C7_Witness ==
  /\ mode = "MEMORY"
  /\ showStats
  /\ Len(memoryCards) = 6
  /\ memoryClickCount > 6
  /\ lastCall = Call("match", "done")

\* the pending resolve callback is the one the judgement of the two selected tiles
\* asks for: match iff same id and other side, 600 ms for a match, 800 ms otherwise
C8_Judged ==
  \A k \in DOMAIN timeouts :
    timeouts[k].kind \in {"match", "mismatch"} =>
      LET f == At(memoryCards, timeouts[k].a)
          g == At(memoryCards, timeouts[k].b)
      IN /\ selectedIndices = <<timeouts[k].a, timeouts[k].b>>
         /\ timeouts[k].kind = "match" <=> (f.id = g.id /\ f.type # g.type)
         /\ timeouts[k].delay =
              (IF timeouts[k].kind = "match" THEN MATCH_DELAY_MS ELSE MISMATCH_DELAY_MS)
         /\ MATCH_DELAY_MS < MISMATCH_DELAY_MS

\* the step that resolves a selection of two tiles
C8_Resolved ==
  mode = "MEMORY" /\ Len(selectedIndices) = 2 /\ selectedIndices' # selectedIndices =>
    LET a == selectedIndices[1]
        b == selectedIndices[2]
        same == At(memoryCards, a).id = At(memoryCards, b).id
                  /\ At(memoryCards, a).type # At(memoryCards, b).type
    IN /\ selectedIndices' = <<>>
       /\ \A i \in 0..(Len(memoryCards) - 1) :
            IF i \in {a, b}
            THEN IF same
                 THEN At(memoryCards', i).isMatched /\ At(memoryCards', i).isFlipped
                 ELSE ~At(memoryCards', i).isMatched /\ ~At(memoryCards', i).isFlipped
            ELSE At(memoryCards', i) = At(memoryCards, i)

\* C8: two selected tiles are judged a match iff they have the same card id and
\* different side tags; a match marks both matched after the short delay, a mismatch
\* flips both back after the longer delay and matches neither; either way the
\* selection is cleared.
C8_MatchIffSameIdOtherSide == []C8_Judged /\ [][C8_Resolved]_vars

\* a mismatch was resolved: both tiles are face-down again and the selection is empty
C8_Witness ==
  /\ mode = "MEMORY"
  /\ lastCall = Call("mismatch", "done")
  /\ selectedIndices = <<>>
  /\ FaceUpUnmatched = {}
  /\ \E k \in DOMAIN memoryCards : memoryCards[k].isMatched

\* the clock before the first click, during the round and after completion
C9_ClockState ==
  mode = "MEMORY" =>
    /\ (memoryClickCount = 0 => timer = 0 /\ ~isTimerActive /\ ~intervalOn)
    /\ (memoryClickCount > 0 /\ ~showStats => isTimerActive /\ intervalOn)
    /\ (showStats => ~isTimerActive /\ ~intervalOn)

\* what a step may do to the displayed time
C9_ClockStep ==
  /\ timer' >= timer
  /\ (mode = "MEMORY" /\ showStats => timer' = timer)
  /\ (memoryClickCount' = 0 => timer' = 0)

C10_Original ==
  mode = "MEMORY" /\ showStats /\ memoryClickCount > 0 =>
    stats.progress = Min(100, RoundPercent(Len(memoryCards), memoryClickCount))

\* the tiles a step turns face-up
TurnedUp == {i \in 0..(Len(memoryCards) - 1) :
               ~At(memoryCards, i).isFlipped /\ At(memoryCards', i).isFlipped}

\* an accepted click: one face-down unmatched tile is turned up and selected while
\* fewer than two are selected, and the counter moves by exactly 1; the counter
\* moves in no other step of a round
C11_Accepted ==
  /\ mode = "MEMORY" /\ memoryClickCount' # memoryClickCount =>
       /\ memoryClickCount' = memoryClickCount + 1
       /\ lastCall' = Call("handleMemoryClick", "done")
       /\ Cardinality(TurnedUp) = 1
  /\ mode = "MEMORY" /\ TurnedUp # {} =>
       /\ memoryClickCount' = memoryClickCount + 1
       /\ Len(selectedIndices) < 2
       /\ \E i \in TurnedUp :
            /\ TurnedUp = {i}
            /\ ~At(memoryCards, i).isMatched
            /\ selectedIndices' = Append(selectedIndices, i)
            /\ \A j \in 0..(Len(memoryCards) - 1) :
                 j # i => At(memoryCards', j) = At(memoryCards, j)

\* a rejected click: the call returned early, on two tiles selected or on a tile
\* face-up or matched, and nothing of the round changed
C11_Rejected ==
  lastCall' # lastCall /\ lastCall' = Call("handleMemoryClick", "noop") =>
    /\ \/ Len(selectedIndices) = 2
       \/ \E i \in 0..(Len(memoryCards) - 1) :
            At(memoryCards, i).isFlipped \/ At(memoryCards, i).isMatched
    /\ UNCHANGED <<memoryClickCount, memoryCards, selectedIndices, timer, isTimerActive,
                   intervalOn, elapsed, timeouts, showStats>>

\* C11: the click counter increases by exactly 1 on every accepted tile click (first
\* or second tile of a pair), and a rejected click (two tiles selected, tile face-up
\* or matched) leaves the counter, the tiles, the selection and the timer unchanged.
C11_ClickCounter == [][C11_Accepted /\ C11_Rejected]_vars

\* a click on a face-up tile was rejected after three accepted clicks
C11_Witness ==
  /\ mode = "MEMORY"
  /\ lastCall = Call("handleMemoryClick", "noop")
  /\ memoryClickCount = 3
  /\ Len(selectedIndices) = 1
  /\ isTimerActive

\* the options are the back texts of the cards o lists: the current card and
\* Len(o) - 1 other cards, pairwise distinct
OptionsOf(o) ==
  /\ \A i, j \in DOMAIN o : i # j => o[i] # o[j]
  /\ \E k \in DOMAIN o : o[k] = currentIndex
  /\ listeningOptions = [k \in DOMAIN o |-> At(cards, o[k]).back]

\* C12 as stated: in every listening turn, on every deck listening mode can be
\* started on, the option set has exactly 4 entries: the back text of the current
\* card and the back texts of 3 distinct other cards.
C12_Original ==
  mode = "LISTENING" /\ lastCall.result # "threw" =>
    \E o \in [1..(1 + DISTRACTOR_COUNT) -> 0..(Len(cards) - 1)] : OptionsOf(o)

\* the step of an answer given by choosing the option text a
C13_AnswerStep(a) ==
  handleListeningAnswer(a) =>
    IF listeningFeedback = "null"
    THEN LET right == a = currentCard.back
         IN /\ listeningFeedback' = (IF right THEN "correct" ELSE "wrong")
            /\ Len(cards') = Len(cards)
            /\ At(cards', currentIndex) =
                 [currentCard EXCEPT !.masteryScore = IF right THEN MAX_MASTERY ELSE 0]
            /\ \A i \in 0..(Len(cards) - 1) :
                 i # currentIndex => At(cards', i) = At(cards, i)
            /\ historyCount' = historyCount + 1
            /\ Len(timeouts') = Len(timeouts) + 1
    ELSE UNCHANGED <<cards, currentIndex, historyCount, streak, timeouts,
                     listeningFeedback, listeningOptions, showStats>>

\* while feedback is shown, it tells the mastery the answer left on the current card,
\* exactly one advance timer is pending, and nothing but that timer moves the session
C13_Locked ==
  mode = "LISTENING" /\ listeningFeedback # "null" =>
    /\ listeningFeedback = "correct" <=> currentCard.masteryScore = MAX_MASTERY
    /\ listeningFeedback = "wrong" <=> currentCard.masteryScore = 0
    /\ ~showStats => Len(timeouts) = 1

\* C13: on a listening answer, feedback is 'correct' exactly when the chosen option
\* equals the current card's back text and 'wrong' otherwise; the current card's
\* masteryScore becomes MAX_MASTERY if correct and 0 if wrong, every other card is
\* unchanged; a further answer given while feedback is set is a no-op (no mastery,
\* answer-count or streak change, no extra advance timer).
C13_ListeningGrading ==
  /\ []C13_Locked
  /\ [][\A k \in DOMAIN listeningOptions : C13_AnswerStep(listeningOptions[k])]_vars
  /\ [][mode = "LISTENING" /\ listeningFeedback # "null"
          => UNCHANGED <<cards, historyCount, streak>> /\ Len(timeouts') <= Len(timeouts)]_vars

\* a second answer was given and ignored while 'wrong' is shown on the third card
C13_Witness ==
  /\ mode = "LISTENING"
  /\ lastCall = Call("handleListeningAnswer", "noop")
  /\ listeningFeedback = "wrong"
  /\ currentIndex = 2
  /\ currentCard.masteryScore = 0
  /\ At(cards, 0).masteryScore = MAX_MASTERY
  /\ Len(timeouts) = 1
  /\ historyCount = 3

\* the answers so far are those of the indices before the cursor, and of the cursor's
\* card once feedback is shown; the session has ended exactly when all n are answered
C14_Answered ==
  mode = "LISTENING" =>
    /\ historyCount = currentIndex + (IF listeningFeedback = "null" THEN 0 ELSE 1)
    /\ Len(timeouts) = (IF listeningFeedback # "null" /\ ~showStats THEN 1 ELSE 0)
    /\ showStats <=> (Len(cards) > 0 /\ historyCount = Len(cards) /\ timeouts = <<>>)

\* the one step after an answer: the cursor moves on by 1 and a new turn is set up,
\* or the session ends on the last card; the cursor moves in no other step
C14_Step ==
  /\ mode = "LISTENING" /\ Len(timeouts') < Len(timeouts) =>
       IF currentIndex + 1 >= Len(cards)
       THEN showStats' /\ currentIndex' = currentIndex
       ELSE /\ currentIndex' = currentIndex + 1
            /\ listeningFeedback' = "null"
            /\ ~showStats'
            /\ \E k \in DOMAIN listeningOptions' :
                 listeningOptions'[k] = At(cards, currentIndex + 1).back
  /\ mode = "LISTENING" /\ (currentIndex' # currentIndex \/ showStats' # showStats) =>
       Len(timeouts) = 1 /\ timeouts' = <<>>
  /\ mode = "LISTENING" /\ historyCount' # historyCount =>
       historyCount' = historyCount + 1 /\ historyCount = currentIndex

\* C14: each accepted listening answer is followed, after the fixed delay, by exactly
\* one step: the index advances by 1 and a new turn is set up (feedback cleared), or
\* the session ends if the answered card was the last; a session over n cards ends
\* after exactly n accepted answers, the indices 0..n-1 answered once each, in order.
C14_OneAdvancePerAnswer ==
  /\ []C14_Answered
  /\ [][C14_Step]_vars
  /\ (mode = "LISTENING" /\ listeningFeedback # "null" /\ ~showStats)
       ~> (listeningFeedback = "null" \/ showStats)

\* a session over three cards ended by the advance timer of the third answer
C14_Witness ==
  /\ mode = "LISTENING"
  /\ Len(cards) = 3
  /\ showStats
  /\ historyCount = 3
  /\ currentIndex = 2
  /\ lastCall = Call("advance", "done")

\* C15 as stated: listening mode is guarded by a minimum deck size: on a deck of
\* fewer than 4 cards (an empty deck included) starting it is rejected or a no-op, so
\* no turn is set up with fewer than 3 distractors and the session never crashes.
C15_Original ==
  /\ mode = "LISTENING" => Len(cards) >= 1 + DISTRACTOR_COUNT
  /\ lastCall.result # "threw"
  /\ Len(listeningOptions) \in {0, 1 + DISTRACTOR_COUNT}

\* C16: playTextToSpeech never signals an error to its caller: for every failure
\* cause (no AudioContext, missing credential, request failure, missing or empty
\* payload, decode exception) the promise resolves and the fallback voice path is
\* invoked exactly once for that call, a silent no-op where there is no local speech;
\* a call that played a buffer invokes it never.
C16_ErrorsAbsorbed ==
  \A c \in DOMAIN calls :
    LET rec == calls[c]
    IN /\ rec.promise # "rejected"
       /\ rec.pc = "done" <=> rec.promise = "resolved"
       /\ rec.cause # "" =>
            /\ rec.pc = "done"
            /\ rec.fallbacks = 1
            /\ rec.played = (IF hasSpeech THEN "native" ELSE "silent")
            /\ hasSpeech => spoken # ""
       /\ rec.cause = "" => rec.fallbacks = 0 /\ rec.played \in {"none", "cache", "remote"}
       /\ rec.pc = "done" /\ rec.played \notin {"cache", "remote"} => rec.cause # ""

\* a failed request, an empty payload and an undecodable payload, each absorbed with
\* one fallback call, in a browser without speech synthesis
C16_Witness ==
  /\ ~hasSpeech
  /\ \A cause \in {"request", "payload", "decode"} :
       \E c \in DOMAIN calls :
         /\ calls[c].cause = cause
         /\ calls[c].fallbacks = 1
         /\ calls[c].promise = "resolved"
         /\ calls[c].played = "silent"

\* call a had finished when call b was made
InSequence(a, b) ==
  a < b /\ \E k \in 1..calls[b].startedAfter : finished[k] = a

\* C17 as stated: for any text, two playTextToSpeech calls made in sequence issue at
\* most one remote synthesis request in total; the second is served from the cache.
C17_Original ==
  \A a, b \in DOMAIN calls :
    InSequence(a, b) /\ calls[a].text = calls[b].text =>
      calls[a].requests + calls[b].requests <= 1

\* C17 amended: for any text, of two playTextToSpeech calls made in sequence the first
\* of which played a buffer (synthesized by it, or cached), the pair issues at most one
\* remote synthesis request in total and the second call is served from the cache.
C17_SecondCallFromCache ==
  \A a, b \in DOMAIN calls :
    InSequence(a, b) /\ calls[a].text = calls[b].text
      /\ calls[a].played \in {"remote", "cache"} =>
        /\ calls[a].requests + calls[b].requests <= 1
        /\ calls[b].requests = 0
        /\ calls[b].pc = "done"
        /\ calls[b].played = "cache"
        /\ calls[b].fallbacks = 0

\* a call synthesized and cached its text, and the next call for it played the cache
C17_Witness ==
  /\ Len(calls) >= 2
  /\ InSequence(1, 2)
  /\ calls[1].text = calls[2].text
  /\ calls[1].played = "remote"
  /\ calls[1].requests = 1
  /\ calls[2].played = "cache"
  /\ audioCache[calls[1].text].id = 1

\* C18: when the synthesis credential is absent, empty or the string 'undefined',
\* playTextToSpeech for an uncached text goes to the fallback playback path without
\* issuing any remote synthesis request and without writing the cache.
C18_NoCredentialNoRequest ==
  apiKey \in {"absent", "", "undefined"} =>
    /\ \A t \in Texts : audioCache[t] = NoEntry
    /\ \A c \in DOMAIN calls :
         /\ calls[c].requests = 0
         /\ calls[c].writes = 0
         /\ calls[c].pc \in {"resuming", "done"}
         /\ calls[c].pc = "done" => calls[c].fallbacks = 1 /\ calls[c].cause # ""
         /\ calls[c].lookup = "miss" => calls[c].cause = "credential"

\* built with the string 'undefined' as credential: a call that waited for the
\* context to resume found no cache entry and went to the fallback voice
C18_Witness ==
  /\ apiKey = "undefined"
  /\ audioContext = "running"
  /\ \E c \in DOMAIN calls :
       /\ calls[c].lookup = "miss"
       /\ calls[c].cause = "credential"
       /\ calls[c].played = "native"
       /\ spoken = calls[c].text

\* the positions in the settling order of the calls that wrote the cache under text t
Writers(t) ==
  {k \in DOMAIN finished : calls[finished[k]].text = t /\ calls[finished[k]].writes > 0}

\* C19: overlapping playTextToSpeech calls for the same uncached text are not
\* deduplicated: a call that finds no cache entry issues its own remote request whatever
\* requests are in flight, a call whose response decodes performs its own cache write,
\* and the entry left for a text is the one written by the call that completed last.
C19_NoDeduplication ==
  /\ \A c \in DOMAIN calls :
       /\ calls[c].lookup = "miss" /\ apiKey = "valid" => calls[c].requests = 1
       /\ calls[c].played = "remote" => calls[c].requests = 1 /\ calls[c].writes = 1
       /\ calls[c].writes <= calls[c].requests
  /\ \A t \in Texts :
       IF Writers(t) = {} THEN audioCache[t] = NoEntry
       ELSE LET last == CHOOSE k \in Writers(t) : \A j \in Writers(t) : j <= k
            IN audioCache[t].id = finished[last]

\* two overlapping calls for one text each made a request and a cache write; the call
\* made first completed last and its buffer is the entry left
C19_Witness ==
  /\ Len(calls) >= 2
  /\ calls[1].text = calls[2].text
  /\ ~InSequence(1, 2)
  /\ calls[1].requests = 1 /\ calls[2].requests = 1
  /\ calls[1].writes = 1 /\ calls[2].writes = 1
  /\ finished = <<2, 1>>
  /\ audioCache[calls[1].text].id = 1

\* the buffer decodePCM returned holds floor(N / 2) samples, sample i the signed
\* 16-bit value of bytes 2i and 2i+1 over PCM_SCALE, hence within [-1, 1]
C20_Decoded ==
  /\ pcmBuffer.state = "buffer"
  /\ Len(pcmBuffer.channelData) = Len(pcmData) \div 2
  /\ \A i \in DOMAIN pcmBuffer.channelData :
       LET s == pcmBuffer.channelData[i]
           lo == IF pcmLittleEndian THEN pcmData[2 * i - 1] ELSE pcmData[2 * i]
           hi == IF pcmLittleEndian THEN pcmData[2 * i] ELSE pcmData[2 * i - 1]
       IN /\ s \in (0 - PCM_SCALE)..(PCM_SCALE - 1)
          /\ (s - (lo + 256 * hi)) % (2 * PCM_SCALE) = 0
          /\ 0 - PCM_SCALE <= s /\ s <= PCM_SCALE

\* C20 as stated: decodePCM maps a buffer of N bytes to exactly floor(N / 2) samples
\* without error for even and odd N, each sample the signed 16-bit value over 32768.
C20_Original == pcmBuffer # NotDecoded => C20_Decoded

\* C20 amended: decodePCM maps a buffer of N >= 2 bytes to exactly floor(N / 2)
\* samples without error for even and odd N (a trailing odd byte is dropped), each
\* sample the signed 16-bit value in [-32768, 32767] over 32768, hence in [-1, 1];
\* on a buffer of 0 or 1 bytes it throws, no sample frame being left.
C20_DecodeAlignsAndScales ==
  pcmBuffer # NotDecoded =>
    IF Len(pcmData) >= 2 THEN C20_Decoded
    ELSE pcmBuffer.state = "threw" /\ pcmBuffer.channelData = <<>>

\* three bytes decoded to the one sample -1.0, the third byte dropped
C20_Witness ==
  /\ Len(pcmData) = 3
  /\ pcmBuffer.state = "buffer"
  /\ pcmBuffer.channelData = <<0 - PCM_SCALE>>

(* ------------------------------------------------------------------ C21 *)
\* the integer nearest to 100 * p / q (halves upwards), q > 0
Nearest(r, p, q) == 2 * r * q - q <= 200 * p /\ 200 * p < 2 * r * q + q

\* C21 as stated: the mastered count is the number of cards at MAX_MASTERY; outside
\* memory mode the progress is round(100 * sum of mastery / (cards * MAX_MASTERY)),
\* 0 for an empty working set; in memory mode it is the efficiency score of the
\* round, min(100, round(100 * 2 * pairs / clicks)), 0 before the first click.
C21_Original ==
  /\ stats.mastered = Cardinality({k \in DOMAIN cards : cards[k].masteryScore = MAX_MASTERY})
  /\ mode # "MEMORY" =>
       IF Len(cards) = 0 THEN stats.progress = 0
       ELSE Nearest(stats.progress, SumMastery(cards), Len(cards) * MAX_MASTERY)
  /\ mode = "MEMORY" =>
       IF memoryClickCount = 0 THEN stats.progress = 0
       ELSE \E r \in 0..(100 * Len(memoryCards)) :
              /\ Nearest(r, Len(memoryCards), memoryClickCount)
              /\ stats.progress = Min(100, r)

\* the parts of C21 that do not rest on the efficiency score
C21_OutsideMemory ==
  /\ stats.mastered = Cardinality({k \in DOMAIN cards : cards[k].masteryScore = MAX_MASTERY})
  /\ mode # "MEMORY" =>
       IF Len(cards) = 0 THEN stats.progress = 0
       ELSE Nearest(stats.progress, SumMastery(cards), Len(cards) * MAX_MASTERY)

(* ------------------------------------------------------------------ C22 *)
\* C22: whatever grades ended a flip-card session, its working set is not empty and
\* the stats it reports are mastered = total and progress = 100.
C22_EndsFullyMastered ==
  mode = "FLASHCARD" /\ showStats =>
    /\ Len(cards) > 0
    /\ stats.mastered = stats.total
    /\ stats.total = Len(cards)
    /\ stats.progress = 100

\* a session on 3 cards ended after some card was graded more than once
C22_Witness ==
  /\ mode = "FLASHCARD"
  /\ showStats
  /\ Len(cards) = 3
  /\ historyCount > 4
  /\ streak < historyCount

(* ------------------------------------------------------------------ C23 *)
\* the records of the session's deck that carry a memory time, the learners who
\* have one, and a learner's best time over them
BoardRecords == {k \in DOMAIN allProgress :
                   allProgress[k].deckName = ThisDeck /\ allProgress[k].memoryTime # 0}
BoardUsers == {allProgress[k].username : k \in BoardRecords}
BestTime(u) ==
  LET times == {allProgress[k].memoryTime : k \in {j \in BoardRecords : allProgress[j].username = u}}
  IN CHOOSE t \in times : \A x \in times : t <= x

\* what top3 is claimed to be, of a list of entries
IsTop3(list) ==
  /\ Len(list) <= 3
  /\ \A i, j \in DOMAIN list : i # j => list[i].username # list[j].username
  /\ \A i \in DOMAIN list :
       /\ list[i].username \in BoardUsers
       /\ list[i].time = BestTime(list[i].username)
  /\ \A i, j \in DOMAIN list : i < j => list[i].time <= list[j].time
  /\ \A u \in BoardUsers :
       (\A i \in DOMAIN list : list[i].username # u) =>
         \A i \in DOMAIN list : BestTime(u) >= list[i].time

\* the list without the records of other decks
ThisDeckOnly ==
  LET Here(p) == p.deckName = ThisDeck
  IN SelectSeq(allProgress, Here)

\* C23 as stated: in memory mode top3 has at most 3 entries with distinct usernames,
\* each with that user's least time over the deck's records that carry a memory
\* time, in ascending order of time; no user left out has a smaller personal best
\* than a listed one; the records of other decks do not influence the result.
C23_Original ==
  leaderboard.data = "data" =>
    /\ IsTop3(leaderboard.top3)
    /\ leaderboard = leaderboardData(leaderboard.mode, leaderboard.timer, ThisDeckOnly,
                                     ThisDeck, user)

\* the same for learners whose name no object inherits, with the length of the list
C23_OrdinaryNames ==
  leaderboard.data = "data" /\ BoardUsers \cap InheritedNames = {} =>
    /\ IsTop3(leaderboard.top3)
    /\ Len(leaderboard.top3) = Min(3, Cardinality(BoardUsers))
    /\ leaderboard = leaderboardData(leaderboard.mode, leaderboard.timer, ThisDeckOnly,
                                     ThisDeck, user)

(* ------------------------------------------------------------------ C24 *)
\* the learner's own records of the session's deck that carry a memory time
OwnRecords == {k \in BoardRecords : allProgress[k].username = user}

\* C24: in memory mode pb is the least memory time of the learner's own records of
\* the deck, none without such a record; isNewPB holds exactly when there is no
\* such record or the clock is strictly below pb.
C24_PersonalBest ==
  leaderboard.data = "data" =>
    /\ OwnRecords = {} => leaderboard.pb = NoPB
    /\ OwnRecords # {} =>
         /\ \E k \in OwnRecords : leaderboard.pb = allProgress[k].memoryTime
         /\ \A k \in OwnRecords : leaderboard.pb <= allProgress[k].memoryTime
    /\ leaderboard.isNewPB <=>
         \/ OwnRecords = {}
         \/ \A k \in OwnRecords : leaderboard.timer < allProgress[k].memoryTime

\* two own records and one of another learner; the clock equals the better own time
C24_Witness ==
  /\ leaderboard.data = "data"
  /\ Cardinality(OwnRecords) = 2
  /\ Cardinality(BoardRecords) = 3
  /\ leaderboard.pb = 1
  /\ \E k \in OwnRecords : allProgress[k].memoryTime = 2
  /\ leaderboard.timer = leaderboard.pb
  /\ ~leaderboard.isNewPB

(* ------------------------------------------------------------------ C25 *)
\* C25 as stated: saveStudentProgress is called exactly once for a session closed
\* from the stats screen, however often its close control is activated while the
\* save is pending, and never for a session that did not reach the stats screen.
C25_Original ==
  /\ saveCalls <= 1
  /\ lastCall.op \in {"onClose(stats)", "handleSessionComplete"} => saveCalls = 1
  /\ ~showStats => saveCalls = 0

(* ------------------------------------------------------------------ C26 *)
\* C26 as stated: once a session is closed every timer it holds is cancelled: its
\* interval is cleared and no delayed callback of it runs afterwards.
C26_Original ==
  ~activeDeck => ~intervalOn /\ lastCall.result # "unmounted"

(* ------------------------------------------------------------------ C27 *)
\* the handlers and callbacks of each mode
FlashcardOps == {"handleGrade", "transition"}
MemoryOps == {"startMemoryGame", "handleMemoryClick", "match", "mismatch"}
ListeningOps == {"startListeningGame", "handleListeningAnswer", "advance"}

\* C27: a session's mode is set once, to one of the three modes, and never changes
\* afterwards; the working set and the cursor are changed only by an operation of
\* the mode selected (never in memory mode), the tiles only by the memory game.
C27_ModeStep ==
  /\ mode # "null" => mode' = mode
  /\ mode' # mode => mode' \in {"FLASHCARD", "MEMORY", "LISTENING"}
  /\ cards' # cards \/ currentIndex' # currentIndex =>
       \/ mode' = "FLASHCARD" /\ lastCall'.op \in FlashcardOps
       \/ mode' = "LISTENING" /\ lastCall'.op \in ListeningOps
  /\ memoryCards' # memoryCards => mode' = "MEMORY" /\ lastCall'.op \in MemoryOps
C27_OneModePerSession == [][C27_ModeStep]_vars

\* a listening session has moved its cursor; no tile was ever dealt
C27_Witness ==
  /\ mode = "LISTENING"
  /\ currentIndex = 1
  /\ lastCall = Call("advance", "done")
  /\ memoryCards = <<>>
  /\ \E k \in DOMAIN cards : cards[k].masteryScore > 0

(* ------------------------------------------------------------------ C28 *)
\* the response of call c arrives in this step
C28_Arrives(c) == calls[c].pc = "requesting" /\ calls'[c].pc # "requesting"

\* C28 as stated: a synthesis response changes neither mastery nor cursor nor
\* leaderboard, and it is played only while the session still shows the card it was
\* requested for: not after the session moved on to another card or ended.
C28_ResponseStep ==
  \A c \in DOMAIN calls :
    C28_Arrives(c) =>
      /\ UNCHANGED <<cards, currentIndex, boardVars>>
      /\ calls'[c].played = "remote" =>
           /\ activeDeck
           /\ ~showStats
           /\ HasCurrentCard
           /\ Front(currentCard) = calls[c].text
C28_Original == [][C28_ResponseStep]_vars

\* the part of C28 about the session's state
C28_StateStep ==
  \A c \in DOMAIN calls :
    C28_Arrives(c) => UNCHANGED <<sessionVars, appVars, boardVars>>
C28_SessionUntouched == [][C28_StateStep]_vars

(* ------------------------------------------------------------------ C29 *)
\* an accepted grade of the current card is given in this step
C29_Graded == mode = "FLASHCARD" /\ historyCount' = historyCount + 1

\* C29: an incorrect grade at index i of a working set of n cards leaves the graded
\* card at index min(n - 1, i + REQUEUE_OFFSET) and every other card as it was, in
\* the same relative order; a correct or mastered grade moves no card.
C29_RequeueStep ==
  C29_Graded =>
    LET n == Len(cards)
        i == currentIndex
        to == Min(n - 1, i + REQUEUE_OFFSET)
    IN /\ Len(cards') = n
       /\ animationClass' = "anim-fly-right" =>
            /\ At(cards', to).id = At(cards, i).id
            /\ RemoveAt(cards', to) = RemoveAt(cards, i)
       /\ animationClass' # "anim-fly-right" =>
            \A k \in DOMAIN cards : cards'[k].id = cards[k].id
C29_RequeuePosition == [][C29_RequeueStep]_vars

\* of 5 cards the first was missed and sits at index 3, before the last card
C29_Witness ==
  /\ Len(cards) = 5
  /\ animationClass = "anim-fly-right"
  /\ historyCount = 1
  /\ [k \in 1..5 |-> cards[k].id] = <<2, 3, 4, 1, 5>>

(* ------------------------------------------------------------------ C30 *)
\* the card with this id is below MAX_MASTERY; it is the card shown
Unmastered(id) == \E k \in DOMAIN cards : cards[k].id = id /\ cards[k].masteryScore < MAX_MASTERY
Shown(id) ==
  /\ mode = "FLASHCARD"
  /\ ~showStats
  /\ animationClass = ""
  /\ HasCurrentCard
  /\ currentCard.id = id

\* C30 as stated: while the learner keeps grading, every card below MAX_MASTERY
\* eventually becomes the current card again.
C30_Original ==
  \A id \in 1..MaxScheduleCards : (mode = "FLASHCARD" /\ Unmastered(id)) ~> Shown(id)

(* ------------------------------------------------------------------ C31 *)
\* the tiles of a card and of a side, and the cards dealt
TilesOf(id, type) ==
  {k \in DOMAIN memoryCards : memoryCards[k].id = id /\ memoryCards[k].type = type}
Dealt == {memoryCards[k].id : k \in DOMAIN memoryCards}

\* the state startMemoryGame leaves when it deals this many pairs
DealtFresh(pairs) ==
  /\ Len(memoryCards) = 2 * pairs
  /\ Cardinality(Dealt) = pairs
  /\ Dealt \subseteq {cards[k].id : k \in DOMAIN cards}
  /\ \A id \in Dealt :
       Cardinality(TilesOf(id, "front")) = 1 /\ Cardinality(TilesOf(id, "back")) = 1
  /\ \A k \in DOMAIN memoryCards : ~memoryCards[k].isFlipped /\ ~memoryCards[k].isMatched
  /\ selectedIndices = <<>>
  /\ timer = 0
  /\ ~isTimerActive
  /\ memoryClickCount = 0

\* C31 as stated: memory setup deals 6 pairs (12 tiles) of distinct cards of the
\* deck, a front and a back tile per card, all face-down and unmatched, with an
\* empty selection, the timer at 0 and inactive and the click count 0.
C31_Original ==
  lastCall = Call("startMemoryGame", "done") => DealtFresh(MEMORY_PAIR_COUNT)

\* C31 amended: the same with min(MEMORY_PAIR_COUNT, deck size) pairs.
C31_DealsUpToSixPairs ==
  lastCall = Call("startMemoryGame", "done") =>
    DealtFresh(Min(MEMORY_PAIR_COUNT, Len(cards)))

\* a deck of 7 cards dealt: 12 tiles, one card left out
C31_Witness ==
  /\ lastCall = Call("startMemoryGame", "done")
  /\ Len(cards) = 7
  /\ Len(memoryCards) = 12
  /\ 1 \notin Dealt

(* ------------------------------------------------------------------ C32 *)
\* the states of the memory machine
Resolving == mode = "MEMORY" /\ Len(selectedIndices) = 2
Idle == mode = "MEMORY" /\ selectedIndices = <<>>
Terminal == showStats /\ \A k \in DOMAIN memoryCards : memoryCards[k].isMatched

\* in Idle before the end some tile is face-down and unmatched: a click on it is accepted
C32_IdleAccepts ==
  Idle /\ ~showStats /\ memoryCards # <<>> =>
    \E k \in DOMAIN memoryCards : ~memoryCards[k].isFlipped /\ ~memoryCards[k].isMatched

\* C32: every state with two tiles selected is followed, once its timer fires, by a
\* state with an empty selection in which clicks are accepted again; and a round of
\* at least one pair can always be finished: from every state of it a learner who
\* goes on turning tiles, the partner of the selected one again and again, reaches
\* the state with every tile matched.
C32_LockReleased ==
  /\ Resolving ~> Idle
  /\ []C32_IdleAccepts
  /\ (mode = "MEMORY" /\ memoryCards # <<>>) ~> Terminal

\* back in Idle after a mismatch on 4 tiles, both tiles face-down again
C32_Witness ==
  /\ Idle
  /\ lastCall = Call("mismatch", "done")
  /\ Len(memoryCards) = 4
  /\ memoryClickCount = 2
  /\ \A k \in DOMAIN memoryCards : ~memoryCards[k].isFlipped
  /\ ~showStats

(* ----------------------------- the scan-forward variant of the scheduler *)
\* the clamp without its lower bound, Math.min(5, score + scoreChange)
scanMastery_NoFloor(scoreChange, isMastered) ==
  IF isMastered THEN 5
  ELSE Min(5, At(cards, currentIndex).masteryScore + scoreChange)

\* isMastered ? 5 : Math.min(5, Math.max(-1, c.masteryScore + scoreChange))
scanMastery(scoreChange, isMastered) ==
  IF isMastered THEN 5
  ELSE Min(5, Max(-1, At(cards, currentIndex).masteryScore + scoreChange))

\* cards.map(...): the card under the cursor regraded in place, no card moved
scanUpdated(scoreChange, isMastered) ==
  [k \in DOMAIN cards |->
     IF k - 1 = currentIndex
     THEN [cards[k] EXCEPT !.masteryScore = scanMastery(scoreChange, isMastered)]
     ELSE cards[k]]

\* updatedCards.findIndex(pred): the first index whose card is below 5 among from..
FirstBelowFive(upd, from) ==
  LET hits == {i \in from..(Len(upd) - 1) : At(upd, i).masteryScore < 5}
  IN IF hits = {} THEN -1 ELSE CHOOSE i \in hits : \A j \in hits : i <= j

\* selectNextCard: the first unmastered card after the cursor, else the first
\* unmastered card of the working set, else -1 (the stats screen)
selectNextCard(upd) ==
  LET nextIdx == FirstBelowFive(upd, currentIndex + 1)
  IN IF nextIdx = -1 THEN FirstBelowFive(upd, 0) ELSE nextIdx

\* the variant's mode selection screen: the flip-card button
ScanSelectFlashcard ==
  /\ activeDeck
  /\ mode = "null"
  /\ mode' = "FLASHCARD"
  /\ lastCall' = Call("setMode", "done")
  /\ UNCHANGED <<cards, currentIndex, isFlipped, showStats, historyCount, streak,
                 animationClass, timeouts, memoryVars, listeningVars>>
  /\ UNCHANGED serviceVars

\* the variant's handleGrade, called by the grade buttons under the card and by
\* the swipe; the learner stops after MaxScanGrades answers
scanHandleGrade(scoreChange, isMastered) ==
  /\ activeDeck
  /\ mode = "FLASHCARD"
  /\ ~showStats
  /\ historyCount < MaxScanGrades
  /\ IF animationClass # ""
     THEN /\ lastCall' = Call("handleGrade", "noop")
          /\ UNCHANGED <<mode, cards, currentIndex, isFlipped, showStats, historyCount,
                         streak, animationClass, timeouts, memoryVars, listeningVars>>
     ELSE LET upd == scanUpdated(scoreChange, isMastered)
          IN /\ animationClass' = (IF isMastered THEN "anim-fly-up"
                                   ELSE IF scoreChange > 0 THEN "anim-fly-left"
                                   ELSE "anim-fly-right")
             /\ cards' = upd
             /\ historyCount' = historyCount + 1
             /\ streak' = (IF scoreChange > 0 \/ isMastered THEN streak + 1 ELSE 0)
             /\ timeouts' = Append(timeouts,
                  Timeout("select", 300, selectNextCard(upd), 0))
             /\ lastCall' = Call("handleGrade", "done")
             /\ UNCHANGED <<mode, currentIndex, isFlipped, showStats, memoryVars,
                            listeningVars>>
  /\ UNCHANGED serviceVars

ScanGrade == \E g \in Grades : scanHandleGrade(g[1], g[2])

\* the variant's tap on the card: onTouchStart past its guard, then onTouchEnd
ScanFlip ==
  /\ activeDeck
  /\ mode = "FLASHCARD"
  /\ ~showStats
  /\ animationClass = ""
  /\ isFlipped' = ~isFlipped
  /\ lastCall' = Call("flip", "done")
  /\ UNCHANGED <<mode, cards, currentIndex, showStats, historyCount, streak,
                 animationClass, timeouts, memoryVars, listeningVars>>
  /\ UNCHANGED serviceVars

\* the setTimeout callback of selectNextCard
selectNextCardFires(k) ==
  /\ activeDeck
  /\ k \in DOMAIN timeouts
  /\ timeouts[k].kind = "select"
  /\ IF timeouts[k].a = -1
     THEN showStats' = TRUE /\ UNCHANGED <<currentIndex, isFlipped>>
     ELSE currentIndex' = timeouts[k].a /\ isFlipped' = FALSE /\ UNCHANGED showStats
  /\ animationClass' = ""
  /\ timeouts' = RemoveAt(timeouts, k - 1)
  /\ lastCall' = Call("selectNextCard", "done")
  /\ UNCHANGED <<mode, cards, historyCount, streak, memoryVars, listeningVars>>
  /\ UNCHANGED serviceVars

ScanTransition == \E k \in DOMAIN timeouts : selectNextCardFires(k)

ScanNext ==
  \/ ScanSelectFlashcard
  \/ ScanGrade
  \/ ScanFlip
  \/ ScanTransition

\* flip-card sessions of the scan-forward variant
ScanSpec == InitWith(MaxScanCards, TRUE) /\ [][ScanNext]_vars

\* an incorrect grade is accepted in this step
IncorrectGradeStep ==
  /\ animationClass = ""
  /\ animationClass' = "anim-fly-right"
  /\ historyCount' = historyCount + 1

\* a card comes to -1 in this step only by an incorrect grade given to it at 0
FloorEntered ==
  \A k \in DOMAIN cards :
    (cards'[k].masteryScore = -1 /\ cards[k].masteryScore # -1)
      => (IncorrectGradeStep /\ k - 1 = currentIndex /\ cards[k].masteryScore = 0)

\* an incorrect grade given in this step to a card at -1 leaves it at -1
FloorKept ==
  (IncorrectGradeStep /\ HasCurrentCard /\ currentCard.masteryScore = -1)
    => At(cards', currentIndex).masteryScore = -1

\* C33: in the scan-forward variant every card's masteryScore stays within
\* [-1, MAX_MASTERY]; a card comes to -1 only by an incorrect grade given to it at
\* 0, and an incorrect grade given to a card at -1 leaves it at -1.
C33_PenalizedFloor ==
  /\ [](\A k \in DOMAIN cards : cards[k].masteryScore \in -1..MAX_MASTERY)
  /\ [][FloorEntered /\ FloorKept]_vars

\* a one-card deck after two incorrect grades: the second came on the card at -1
C33_Witness ==
  /\ Len(cards) = 1
  /\ cards[1].masteryScore = -1
  /\ historyCount = 2
  /\ streak = 0
  /\ animationClass = "anim-fly-right"
  /\ lastCall = Call("handleGrade", "done")

\* the ids of the working set, and the places a card of the working set is at
IdsOf(cs) == {cs[k].id : k \in DOMAIN cs}
PlacesOf(cs, id) == {k \in DOMAIN cs : cs[k].id = id}

\* every card of the working set is in it once in this step's two states, with
\* its back text; an incorrect grade leaves the score of every other card
SameCards ==
  /\ Len(cards') = Len(cards)
  /\ IdsOf(cards') = IdsOf(cards)
  /\ \A id \in IdsOf(cards) :
       /\ Cardinality(PlacesOf(cards, id)) = 1
       /\ Cardinality(PlacesOf(cards', id)) = 1
       /\ \A j \in PlacesOf(cards, id) : \A k \in PlacesOf(cards', id) :
            /\ cards'[k].back = cards[j].back
            /\ (IncorrectGradeStep /\ id # currentCard.id)
                 => cards'[k].masteryScore = cards[j].masteryScore

\* C34: throughout a flip-card session the working set is a permutation of the
\* cards it started with (same length, same ids, no card twice), and an incorrect
\* grade changes the masteryScore of no card other than the graded one.
C34_Permutation == [][SameCards]_vars

\* five cards after three answers: card 1 missed and requeued, card 2 mastered,
\* card 3 missed and requeued at the end, card 2 still at MAX_MASTERY
C34_Witness ==
  /\ mode = "FLASHCARD"
  /\ [k \in DOMAIN cards |-> cards[k].id] = <<2, 4, 1, 5, 3>>
  /\ cards[1].masteryScore = MAX_MASTERY
  /\ historyCount = 3
  /\ animationClass = "anim-fly-right"

(* ------------------------------------------------------------------ C35 *)
\* a card other than the one under the cursor is below MAX_MASTERY
OtherUnmastered ==
  \E k \in DOMAIN cards :
    cards[k].id # currentCard.id /\ cards[k].masteryScore < MAX_MASTERY

\* the card the transition scheduled in this step will show
ShownNext == At(cards', timeouts'[Len(timeouts')].a)

\* C35 as stated: after an accepted incorrect grade in flip-card mode, whenever
\* another card of the working set is unmastered, the card shown next is a card
\* other than the one just graded, whatever the position of the graded card.
C35_Original ==
  [][(IncorrectGradeStep /\ OtherUnmastered)
       => /\ timeouts'[Len(timeouts')].a # -1
          /\ ShownNext.id # currentCard.id]_vars

(* ------------------------------------------------------------------ C36 *)
\* the ids of the cards of a working set that are at MAX_MASTERY
AtMax(cs) == {cs[k].id : k \in {j \in DOMAIN cs : cs[j].masteryScore = MAX_MASTERY}}

\* C36: in flip-card mode a card at MAX_MASTERY stays at MAX_MASTERY through every
\* later grade, requeue and transition, so the number of mastered cards never
\* decreases.
C36_Absorbing ==
  [][mode = "FLASHCARD"
       => /\ AtMax(cards) \subseteq AtMax(cards')
          /\ Cardinality(AtMax(cards')) >= Cardinality(AtMax(cards))]_vars

\* two cards, one at MAX_MASTERY, after a later incorrect grade on the other
C36_Witness ==
  /\ mode = "FLASHCARD"
  /\ Len(cards) = 2
  /\ Cardinality(AtMax(cards)) = 1
  /\ \E k \in DOMAIN cards : cards[k].masteryScore = 0
  /\ historyCount = 3
  /\ streak = 0
  /\ animationClass = "anim-fly-right"

(* ------------------------------------------------------------------ C37 *)
\* the tiles selected, and the tiles matched
SelectedTiles == {selectedIndices[k] : k \in DOMAIN selectedIndices}
MatchedTiles == {i \in 0..(Len(memoryCards) - 1) : At(memoryCards, i).isMatched}

\* C37: in every memory state the selected tiles are exactly the face-up unmatched
\* tiles, 0, 1 or 2 of them and pairwise distinct; every matched tile is face-up;
\* the partner of a matched tile (same card id, other side) is matched, and the
\* number of matched tiles is even.
C37_SelectionIsFaceUp ==
  mode = "MEMORY" =>
    /\ SelectedTiles = FaceUpUnmatched
    /\ Len(selectedIndices) <= 2
    /\ Cardinality(SelectedTiles) = Len(selectedIndices)
    /\ \A i \in MatchedTiles : At(memoryCards, i).isFlipped
    /\ \A i \in MatchedTiles : \E j \in MatchedTiles :
         /\ At(memoryCards, j).id = At(memoryCards, i).id
         /\ At(memoryCards, j).type # At(memoryCards, i).type
    /\ Cardinality(MatchedTiles) % 2 = 0

\* a pair matched and a mismatch turned back (five clicks with the one that
\* selected the tile now face-up)
C37_Witness ==
  /\ mode = "MEMORY"
  /\ Cardinality(MatchedTiles) = 2
  /\ Len(selectedIndices) = 1
  /\ lastCall = Call("handleMemoryClick", "done")
  /\ memoryClickCount = 5
  /\ ~showStats

(* ------------------------------------------------- the completion record *)
\* the flip-card button on the decks whose flip-card sessions are followed
RecordSelectFlashcard ==
  /\ Len(cards) <= MaxAppCards
  /\ SelectFlashcard

\* the listening button on the decks whose listening sessions are followed
RecordListeningGame ==
  /\ Len(cards) <= MaxAppCards
  /\ startListeningGame

\* the tiles not turned yet
FaceDown == {i \in 0..(Len(memoryCards) - 1) : ~At(memoryCards, i).isFlipped}

\* a tile click of a learner who opens every selection with the first tile still
\* face-down and then turns any tile
RecordClick ==
  \E index \in 0..(Len(memoryCards) - 1) :
    /\ (selectedIndices = <<>> /\ FaceDown # {}) => \A i \in FaceDown : index <= i
    /\ handleMemoryClick(index)

RecordNext ==
  \/ RecordSelectFlashcard
  \/ Grade
  \/ Flip
  \/ Transition
  \/ RecordListeningGame
  \/ ListeningAnswer
  \/ Advance
  \/ startMemoryGame
  \/ RecordClick
  \/ Match
  \/ Mismatch
  \/ TimePasses
  \/ Tick
  \/ CloseFromStats
  \/ SaveSettles

\* sessions closed from the stats screen: memory rounds on decks smaller and
\* larger than MEMORY_PAIR_COUNT, flip-card and listening sessions on small decks
RecordSpec == InitWith(MaxDealCards, FALSE) /\ [][RecordNext]_vars

\* C38: the record of a memory session reports 0 cards mastered, the size of the
\* whole deck as its total and the elapsed-time counter as its memoryTime; the
\* records of flip-card and listening sessions carry no memoryTime.
C38_MemoryRecord ==
  \A k \in DOMAIN saved :
    IF mode = "MEMORY"
    THEN /\ saved[k].cardsMastered = 0
         /\ saved[k].totalCards = Len(cards)
         /\ saved[k].memoryTime = timer
    ELSE saved[k].memoryTime = -1

\* a round of 6 pairs on a deck of 7 cards, closed from the stats screen with the
\* clock at 2
C38_Witness ==
  /\ mode = "MEMORY"
  /\ Len(cards) = 7
  /\ Len(memoryCards) = 2 * MEMORY_PAIR_COUNT
  /\ Len(saved) = 1
  /\ saved[1].totalCards = 7
  /\ saved[1].cardsMastered = 0
  /\ saved[1].memoryTime = 2

(* ------------------------------------------------- progress on large decks *)
\* every card but the one under the cursor is at MAX_MASTERY
OthersMastered ==
  \A k \in DOMAIN cards : k - 1 # currentIndex => cards[k].masteryScore = MAX_MASTERY

\* a grade of a learner who never stops and who grades "mastered", or "correct" as
\* the first answer of the session and on the last card left
ProgressGrade ==
  \/ handleGradeCounting(0, TRUE, TRUE)
  \/ /\ historyCount = 0 \/ OthersMastered
     /\ handleGradeCounting(1, FALSE, TRUE)

ProgressNext ==
  \/ SelectFlashcard
  \/ ProgressGrade
  \/ Flip
  \/ Transition

\* flip-card sessions on decks of up to MaxProgressCards cards, where one point of
\* mastery is less than half a percent of the deck
ProgressSpec == InitWith(MaxProgressCards, FALSE) /\ [][ProgressNext]_vars

(* ------------------------------------------------------------------ C39 *)
AllAtMax == \A k \in DOMAIN cards : cards[k].masteryScore = MAX_MASTERY
AllAtZero == \A k \in DOMAIN cards : cards[k].masteryScore = 0

\* the deck sizes from which one point of mastery is at most half a percent
HalfPercentDeck == 200 \div MAX_MASTERY

\* C39 as stated: on every non-empty working set the progress of a flip-card or
\* listening session is 100 iff every card is at MAX_MASTERY and 0 iff every card
\* is at 0.
C39_Original ==
  (mode \in {"FLASHCARD", "LISTENING"} /\ Len(cards) > 0) =>
    /\ stats.progress = 100 <=> AllAtMax
    /\ stats.progress = 0 <=> AllAtZero

\* C39, amended: on every non-empty working set the progress is 100 if every card
\* is at MAX_MASTERY and 0 if every card is at 0; on working sets of fewer than
\* 40 cards it is 100 only if every card is at MAX_MASTERY and 0 only if every
\* card is at 0.
C39_ExactOnSmallDecks ==
  (mode \in {"FLASHCARD", "LISTENING"} /\ Len(cards) > 0) =>
    /\ AllAtMax => stats.progress = 100
    /\ AllAtZero => stats.progress = 0
    /\ Len(cards) < HalfPercentDeck =>
         /\ stats.progress = 100 => AllAtMax
         /\ stats.progress = 0 => AllAtZero

\* 39 cards, all but one mastered and that one at 4: 194 of 195 points show as 99
C39_Witness ==
  /\ mode = "FLASHCARD"
  /\ Len(cards) = 39
  /\ SumMastery(cards) = 39 * MAX_MASTERY - 1
  /\ stats.progress = 99

(* ------------------------------------------------------------------ C40 *)
\* call c got its audio from the service and decoded it in this step
Synthesized(c) ==
  /\ calls[c].pc = "requesting"
  /\ calls'[c].pc = "done"
  /\ calls'[c].played = "remote"

\* the cache entry of a text changes in this step only with a call for that very
\* text that synthesized and decoded its audio, and becomes that call's buffer
WrittenBySuccess ==
  \A t \in Texts :
    audioCache'[t] # audioCache[t] =>
      \E c \in DOMAIN calls :
        /\ Synthesized(c)
        /\ calls[c].text = t
        /\ audioCache'[t].id = c
        /\ audioCache'[t].channelData # <<>>

\* a call that ends in the fallback in this step leaves every cache entry
FailureWritesNothing ==
  (\E c \in DOMAIN calls' :
     /\ calls'[c].fallbacks = 1
     /\ c \in DOMAIN calls => calls[c].fallbacks = 0)
    => audioCache' = audioCache

\* a call served from the cache plays the buffer of an earlier call for its text
\* that synthesized and decoded it; a call that failed is the source of no entry
ServedFromSuccess ==
  /\ \A c \in DOMAIN calls :
       calls[c].played = "cache" =>
         \E b \in 1..(c - 1) : calls[b].text = calls[c].text /\ calls[b].played = "remote"
  /\ \A t \in Texts :
       audioCache[t] # NoEntry =>
         /\ audioCache[t].id \in DOMAIN calls
         /\ calls[audioCache[t].id].text = t
         /\ calls[audioCache[t].id].played = "remote"

\* C40: the audio cache is written only by a call whose remote synthesis and decode
\* both succeeded, under the text of that call; every failure path leaves the cache
\* unchanged, so no call is served from the cache because of a failed call.
C40_CacheWrittenOnSuccess ==
  /\ []ServedFromSuccess
  /\ [][WrittenBySuccess /\ FailureWritesNothing]_vars

\* a call whose payload could not be decoded, then a call for the same text that
\* missed the cache, asked the service again and cached its buffer
C40_Witness ==
  /\ Len(calls) >= 2
  /\ calls[1].cause = "decode"
  /\ calls[2].text = calls[1].text
  /\ calls[2].startedAfter = 1
  /\ calls[2].lookup = "miss"
  /\ calls[2].played = "remote"
  /\ audioCache[calls[2].text].id = 2
====
